---- MODULE Spec2Model ----
(***************************************************************************)
(* Verification model of multitars: the block reader (both strategies      *)
(* found in the sources: the pushback buffer of the earlier reader and the *)
(* cursor rewind of src/src/reader.ts), the boundary search, the tar       *)
(* decoder and encoder and the multipart decoder and encoder.              *)
(*                                                                         *)
(* Byte arrays are sequences.  A slice handed to a caller is modelled by   *)
(* its value at the moment it is returned; memory the code reads again     *)
(* later (the block and the pushback buffer) is modelled as an array.      *)
(* A nullable value is <<>> (null) or <<v>>.                               *)
(***************************************************************************)
EXTENDS Integers, Sequences, FiniteSets, TLC

VARIABLES
  reader,     \* the ReadableStreamBlockReader (its fields and its source)
  orig,       \* the bytes of the source stream, in order
  delivered,  \* bytes handed to the caller so far, net of pushback/rewind
  last,       \* the last call made on the harness and its result
  pipe,       \* state of the pipeline (untar / parseMultipart / search) run
  input       \* the input the run was started with (archive, boundary, ...)

vars == <<reader, orig, delivered, last, pipe, input>>

----------------------------------------------------------------------------
(* Generic helpers *)

Null == <<>>
Some(x) == <<x>>
IsNull(o) == Len(o) = 0
Val(o) == o[1]

Take(s, n) == SubSeq(s, 1, n)
Drop(s, n) == SubSeq(s, n + 1, Len(s))
Min(a, b) == IF a < b THEN a ELSE b
Max(a, b) == IF a > b THEN a ELSE b

\* the concatenation of a sequence of sequences (by halves)
RECURSIVE Flatten(_)
Flatten(ss) ==
  IF Len(ss) = 0 THEN <<>>
  ELSE IF Len(ss) = 1 THEN ss[1]
  ELSE LET half == Len(ss) \div 2
       IN Flatten(SubSeq(ss, 1, half)) \o Flatten(SubSeq(ss, half + 1, Len(ss)))

Zeros(n) == [i \in 1..n |-> 0]

\* TypedArray.prototype.set(source, offset)
SetAt(target, source, offset) ==
  [i \in 1..Len(target) |->
     IF i > offset /\ i <= offset + Len(source) THEN source[i - offset]
     ELSE target[i]]

\* TypedArray.prototype.copyWithin(target, start, end), a memmove
CopyWithin(arr, target, start, end) ==
  SetAt(arr, SubSeq(arr, start + 1, Min(end, start + (Len(arr) - target))), target)

\* All ways of splitting s into consecutive non-empty chunks
RECURSIVE Chunkings(_)
Chunkings(s) ==
  IF s = <<>> THEN { <<>> }
  ELSE UNION { { <<Take(s, k)>> \o c : c \in Chunkings(Drop(s, k)) } : k \in 1..Len(s) }

\* s split into chunks whose sizes alternate between c1 and c2
ChunkBy(s, c1, c2) ==
  LET start(j) == ((j - 1) \div 2) * (c1 + c2) + (IF j % 2 = 0 THEN c1 ELSE 0)
      size(j) == IF j % 2 = 0 THEN c2 ELSE c1
      n == Cardinality({ j \in 1..(2 * Len(s)) : start(j) < Len(s) })
  IN [j \in 1..n |-> SubSeq(s, start(j) + 1, Min(start(j) + size(j), Len(s)))]

IsPrefix(p, s) == Len(p) <= Len(s) /\ Take(s, Len(p)) = p

\* F applied to the value of v: a name for a value that is worked out once
With(v, F(_)) == F(v)

----------------------------------------------------------------------------
(* ReadableStreamBlockReader, pushback variant *)

NewReaderA(chunks, blockSize) ==
  [ blockSize  |-> blockSize,
    buffer     |-> Zeros(blockSize),
    bufferSize |-> 0,
    nextRead   |-> Null,
    next       |-> chunks ]

\* reverseSet that writes at the end of target whatever is already there
reverseSet_NoOffset(target, source, reverseOffset) ==
  SetAt(target, source, Len(target) - Len(source))

reverseSet(target, source, reverseOffset) ==
  SetAt(target, source, Len(target) - Len(source) - reverseOffset)

PushbackOverflowA(r, buf) == Len(buf) > Len(r.buffer) - r.bufferSize

pushbackA(r, buf) ==
  IF Len(buf) > 0
  THEN [r EXCEPT !.buffer = reverseSet(r.buffer, buf, r.bufferSize),
                 !.bufferSize = r.bufferSize + Len(buf)]
  ELSE r

\* ReadEndA with the partial bytes dropped instead of pushed back
ReadEndA_NoPushback(r, acc, allowPartialEnd) ==
  IF Len(acc) < r.blockSize /\ allowPartialEnd
  THEN [r |-> r, out |-> IF Len(acc) > 0 THEN Some(acc) ELSE Null]
  ELSE IF Len(acc) < r.blockSize
  THEN [r |-> r, out |-> Null]
  ELSE [r |-> r, out |-> Some(acc)]

\* step (4) of read(): the block could not be filled
ReadEndA(r, acc, allowPartialEnd) ==
  IF Len(acc) < r.blockSize /\ allowPartialEnd
  THEN [r |-> r, out |-> IF Len(acc) > 0 THEN Some(acc) ELSE Null]
  ELSE IF Len(acc) < r.blockSize
  THEN [r |-> pushbackA(r, acc), out |-> Null]
  ELSE [r |-> r, out |-> Some(acc)]

\* step (3) of read(): fill the block from the source
RECURSIVE ReadFillA(_, _, _)
ReadFillA(r, acc, allowPartialEnd) ==
  LET remaining == r.blockSize - Len(acc)
  IN IF remaining > 0
     THEN IF r.next = <<>>
          THEN ReadEndA(r, acc, allowPartialEnd)
          ELSE LET view == Head(r.next)
                   r1 == [r EXCEPT !.next = Tail(r.next)]
               IN IF Len(view) = 0
                  THEN ReadEndA(r1, acc, allowPartialEnd)
                  ELSE IF Len(view) > remaining
                  THEN [r |-> [r1 EXCEPT !.nextRead = Some(Drop(view, remaining))],
                        out |-> Some(acc \o Take(view, remaining))]
                  ELSE ReadFillA(r1, acc \o view, allowPartialEnd)
     ELSE ReadEndA(r, acc, allowPartialEnd)

readA(r, allowPartialEnd) ==
  IF r.bufferSize = r.blockSize
  THEN [r |-> [r EXCEPT !.bufferSize = 0], out |-> Some(r.buffer)]
  ELSE LET acc0 == IF r.bufferSize > 0
                   THEN Drop(r.buffer, r.blockSize - r.bufferSize) ELSE <<>>
           r0 == [r EXCEPT !.bufferSize = 0]
           remaining == r.blockSize - Len(acc0)
       IN IF remaining > 0 /\ ~IsNull(r0.nextRead)
          THEN IF Len(Val(r0.nextRead)) > remaining
               THEN [r |-> [r0 EXCEPT !.nextRead = Some(Drop(Val(r0.nextRead), remaining))],
                     out |-> Some(acc0 \o Take(Val(r0.nextRead), remaining))]
               ELSE ReadFillA([r0 EXCEPT !.nextRead = Null],
                              acc0 \o Val(r0.nextRead), allowPartialEnd)
          ELSE ReadFillA(r0, acc0, allowPartialEnd)

pullA(r, maxSize) ==
  IF r.bufferSize > 0
  THEN IF r.bufferSize <= maxSize
       THEN [r |-> [r EXCEPT !.bufferSize = 0],
             out |-> Some(Drop(r.buffer, r.blockSize - r.bufferSize))]
       ELSE [r |-> [r EXCEPT !.bufferSize = r.bufferSize - maxSize],
             out |-> Some(SubSeq(r.buffer, r.blockSize - r.bufferSize + 1,
                                 r.blockSize - (r.bufferSize - maxSize)))]
  ELSE IF ~IsNull(r.nextRead)
  THEN IF Len(Val(r.nextRead)) <= maxSize
       THEN [r |-> [r EXCEPT !.nextRead = Null], out |-> r.nextRead]
       ELSE [r |-> [r EXCEPT !.nextRead = Some(Drop(Val(r.nextRead), maxSize))],
             out |-> Some(Take(Val(r.nextRead), maxSize))]
  ELSE IF r.next = <<>>
  THEN [r |-> r, out |-> Null]
  ELSE LET view == Head(r.next)
           r1 == [r EXCEPT !.next = Tail(r.next)]
       IN IF Len(view) > maxSize
          THEN [r |-> [r1 EXCEPT !.nextRead = Some(Drop(view, maxSize))],
                out |-> Some(Take(view, maxSize))]
          ELSE [r |-> r1, out |-> Some(view)]

\* the while loop of skip(): get more chunks to skip over
RECURSIVE SkipLoopA(_, _)
SkipLoopA(r, remaining) ==
  IF remaining > 0
  THEN IF r.next = <<>>
       THEN [r |-> r, out |-> remaining]
       ELSE LET view == Head(r.next)
                r1 == [r EXCEPT !.next = Tail(r.next)]
            IN IF Len(view) > remaining
               THEN [r |-> [r1 EXCEPT !.nextRead = Some(Drop(view, remaining))], out |-> 0]
               ELSE SkipLoopA(r1, remaining - Len(view))
  ELSE [r |-> r, out |-> remaining]

\* skip() that does not count the pushed-back bytes it discards
skipA_KeepsCount(r, requestedSize) ==
  IF r.bufferSize >= requestedSize
  THEN [r |-> [r EXCEPT !.bufferSize = r.bufferSize - requestedSize], out |-> 0]
  ELSE LET remaining == requestedSize
           r0 == [r EXCEPT !.bufferSize = 0]
       IN IF ~IsNull(r0.nextRead)
          THEN IF Len(Val(r0.nextRead)) > remaining
               THEN [r |-> [r0 EXCEPT !.nextRead = Some(Drop(Val(r0.nextRead), remaining))],
                     out |-> 0]
               ELSE SkipLoopA([r0 EXCEPT !.nextRead = Null],
                              remaining - Len(Val(r0.nextRead)))
          ELSE SkipLoopA(r0, remaining)

skipA(r, requestedSize) ==
  IF r.bufferSize >= requestedSize
  THEN [r |-> [r EXCEPT !.bufferSize = r.bufferSize - requestedSize], out |-> 0]
  ELSE LET remaining == requestedSize - r.bufferSize
           r0 == [r EXCEPT !.bufferSize = 0]
       IN IF ~IsNull(r0.nextRead)
          THEN IF Len(Val(r0.nextRead)) > remaining
               THEN [r |-> [r0 EXCEPT !.nextRead = Some(Drop(Val(r0.nextRead), remaining))],
                     out |-> 0]
               ELSE SkipLoopA([r0 EXCEPT !.nextRead = Null],
                              remaining - Len(Val(r0.nextRead)))
          ELSE SkipLoopA(r0, remaining)

\* the bytes the reader still holds or can still get, in delivery order
UnreadA(r) ==
  Drop(r.buffer, r.blockSize - r.bufferSize)
    \o (IF IsNull(r.nextRead) THEN <<>> ELSE Val(r.nextRead))
    \o Flatten(r.next)

----------------------------------------------------------------------------
(* ReadableStreamBlockReader, cursor-rewind variant (src/src/reader.ts) *)

NewReaderB(chunks, blockSize) ==
  [ blockSize   |-> blockSize,
    block       |-> Zeros(blockSize),
    blockLocked |-> FALSE,
    blockRewind |-> 0,
    input       |-> Null,
    inputOffset |-> 0,
    next        |-> chunks ]

\* the end of read(): the block is full, partial (end of stream) or empty
ReadEndB(r, byteLength) ==
  LET r1 == [r EXCEPT !.blockLocked = TRUE]
  IN IF byteLength = r.blockSize
     THEN [r |-> r1, out |-> Some(r1.block)]
     ELSE IF byteLength > 0
     THEN LET moved == CopyWithin(r1.block, r.blockSize - byteLength, 0, byteLength)
          IN [r |-> [r1 EXCEPT !.block = moved],
              out |-> Some(Drop(moved, r.blockSize - byteLength))]
     ELSE [r |-> r1, out |-> Null]

\* step (3) of read(): fill the block from the source
RECURSIVE ReadFillB(_, _)
ReadFillB(r, byteLength) ==
  LET remaining == r.blockSize - byteLength
  IN IF remaining > 0
     THEN IF r.next = <<>>
          THEN ReadEndB(r, byteLength)
          ELSE LET view == Head(r.next)
                   r1 == [r EXCEPT !.next = Tail(r.next)]
               IN IF Len(view) = 0
                  THEN ReadEndB(r1, byteLength)
                  ELSE IF Len(view) > remaining
                  THEN LET slice == Take(view, remaining)
                           r2 == [r1 EXCEPT !.input = Some(view),
                                            !.inputOffset = remaining,
                                            !.blockLocked = (byteLength # 0)]
                       IN IF byteLength # 0
                          THEN LET b == SetAt(r2.block, slice, byteLength)
                               IN [r |-> [r2 EXCEPT !.block = b], out |-> Some(b)]
                          ELSE [r |-> r2, out |-> Some(slice)]
                  ELSE ReadFillB([r1 EXCEPT !.block = SetAt(r1.block, view, byteLength)],
                                 byteLength + Len(view))
     ELSE ReadEndB(r, byteLength)

readB(r) ==
  LET \* (1) rewound data is moved to the front of the block
      byteLength0 == IF r.blockRewind > 0 THEN r.blockRewind ELSE 0
      r0 == IF r.blockRewind > 0
            THEN [r EXCEPT !.block = CopyWithin(r.block, 0, r.blockSize - r.blockRewind,
                                                r.blockSize),
                           !.blockRewind = 0]
            ELSE r
      remaining == r.blockSize - byteLength0
  IN IF ~IsNull(r0.input) /\ remaining > 0
     THEN LET inp == Val(r0.input)
          IN IF Len(inp) - r0.inputOffset > remaining
             THEN LET b == SetAt(r0.block,
                                 SubSeq(inp, r0.inputOffset + 1, r0.inputOffset + remaining),
                                 byteLength0)
                  IN [r |-> [r0 EXCEPT !.blockLocked = TRUE, !.block = b,
                                       !.inputOffset = r0.inputOffset + remaining],
                      out |-> Some(b)]
             ELSE LET slice == Drop(inp, r0.inputOffset)
                  IN ReadFillB([r0 EXCEPT !.block = SetAt(r0.block, slice, byteLength0),
                                          !.input = Null],
                               byteLength0 + Len(slice))
     ELSE ReadFillB(r0, byteLength0)

\* pull() that keeps nothing of a chunk longer than maxSize
pullB_DropsRest(r, maxSize) ==
  IF r.blockRewind > 0
  THEN IF r.blockRewind <= maxSize
       THEN [r |-> [r EXCEPT !.blockLocked = TRUE, !.blockRewind = 0],
             out |-> Some(Drop(r.block, r.blockSize - r.blockRewind))]
       ELSE [r |-> [r EXCEPT !.blockLocked = TRUE, !.blockRewind = r.blockRewind - maxSize],
             out |-> Some(SubSeq(r.block, r.blockSize - r.blockRewind + 1,
                                 r.blockSize - (r.blockRewind - maxSize)))]
  ELSE IF ~IsNull(r.input)
  THEN LET inp == Val(r.input)
           inputSize == Len(inp) - r.inputOffset
       IN IF inputSize <= maxSize
          THEN [r |-> [r EXCEPT !.blockLocked = FALSE, !.input = Null],
                out |-> Some(Drop(inp, r.inputOffset))]
          ELSE [r |-> [r EXCEPT !.blockLocked = FALSE,
                                !.inputOffset = r.inputOffset + maxSize],
                out |-> Some(SubSeq(inp, r.inputOffset + 1, r.inputOffset + maxSize))]
  ELSE LET r0 == [r EXCEPT !.blockLocked = FALSE]
       IN IF r0.next = <<>>
          THEN [r |-> r0, out |-> Null]
          ELSE LET view == Head(r0.next)
                   r1 == [r0 EXCEPT !.next = Tail(r0.next)]
               IN IF Len(view) > maxSize
                  THEN [r |-> r1, out |-> Some(Take(view, maxSize))]
                  ELSE [r |-> r1, out |-> Some(view)]

pullB(r, maxSize) ==
  IF r.blockRewind > 0
  THEN IF r.blockRewind <= maxSize
       THEN [r |-> [r EXCEPT !.blockLocked = TRUE, !.blockRewind = 0],
             out |-> Some(Drop(r.block, r.blockSize - r.blockRewind))]
       ELSE [r |-> [r EXCEPT !.blockLocked = TRUE, !.blockRewind = r.blockRewind - maxSize],
             out |-> Some(SubSeq(r.block, r.blockSize - r.blockRewind + 1,
                                 r.blockSize - (r.blockRewind - maxSize)))]
  ELSE IF ~IsNull(r.input)
  THEN LET inp == Val(r.input)
           inputSize == Len(inp) - r.inputOffset
       IN IF inputSize <= maxSize
          THEN [r |-> [r EXCEPT !.blockLocked = FALSE, !.input = Null],
                out |-> Some(Drop(inp, r.inputOffset))]
          ELSE [r |-> [r EXCEPT !.blockLocked = FALSE,
                                !.inputOffset = r.inputOffset + maxSize],
                out |-> Some(SubSeq(inp, r.inputOffset + 1, r.inputOffset + maxSize))]
  ELSE LET r0 == [r EXCEPT !.blockLocked = FALSE]
       IN IF r0.next = <<>>
          THEN [r |-> r0, out |-> Null]
          ELSE LET view == Head(r0.next)
                   r1 == [r0 EXCEPT !.next = Tail(r0.next)]
               IN IF Len(view) > maxSize
                  THEN [r |-> [r1 EXCEPT !.input = Some(view), !.inputOffset = maxSize],
                        out |-> Some(Take(view, maxSize))]
                  ELSE [r |-> r1, out |-> Some(view)]

\* step (3) of skip(): get more chunks to skip over
RECURSIVE SkipLoopB(_, _)
SkipLoopB(r, remaining) ==
  IF remaining > 0
  THEN IF r.next = <<>>
       THEN [r |-> r, out |-> remaining]
       ELSE LET view == Head(r.next)
                r1 == [r EXCEPT !.next = Tail(r.next)]
            IN IF Len(view) > remaining
               THEN [r |-> [r1 EXCEPT !.input = Some(view), !.inputOffset = remaining],
                     out |-> 0]
               ELSE SkipLoopB(r1, remaining - Len(view))
  ELSE [r |-> r, out |-> remaining]

skipB(r, requestedSize) ==
  LET rl == [r EXCEPT !.blockLocked = FALSE]
  IN IF rl.blockRewind >= requestedSize
     THEN [r |-> [rl EXCEPT !.blockRewind = rl.blockRewind - requestedSize], out |-> 0]
     ELSE LET remaining == requestedSize - rl.blockRewind
              r0 == [rl EXCEPT !.blockRewind = 0]
          IN IF ~IsNull(r0.input)
             THEN LET inputSize == Len(Val(r0.input)) - r0.inputOffset
                  IN IF inputSize > remaining
                     THEN [r |-> [r0 EXCEPT !.inputOffset = r0.inputOffset + remaining],
                           out |-> 0]
                     ELSE SkipLoopB([r0 EXCEPT !.input = Null], remaining - inputSize)
             ELSE SkipLoopB(r0, remaining)

rewind(r, shiftEnd) ==
  IF r.blockLocked
  THEN [r EXCEPT !.blockRewind = r.blockRewind + shiftEnd]
  ELSE IF ~IsNull(r.input)
  THEN [r EXCEPT !.inputOffset = r.inputOffset - shiftEnd]
  ELSE r

----------------------------------------------------------------------------
(* readUntilBoundary.  Indices are 0-based as in the source; s[i + 1] is   *)
(* the byte at index i.  The generator is [pc, buffer]: pc is where it is  *)
(* suspended, buffer the block kept for the next iteration.  One call of   *)
(* next() runs to the next yield (or to the end) and returns               *)
(* [r, g, kind, value] with kind "yield", "done" or "throw".               *)

NewSearch == [pc |-> "start", buffer |-> Null]

GenResult(r, pc, buffer, kind, value) ==
  [r |-> r, g |-> [pc |-> pc, buffer |-> buffer], kind |-> kind, value |-> value]

\* number of bytes for which boundary[boundaryIdx..] and buffer[bufferIdx..] agree
RECURSIVE MatchRun(_, _, _, _)
MatchRun(boundary, boundaryIdx, buffer, bufferIdx) ==
  IF /\ boundaryIdx < Len(boundary)
     /\ bufferIdx < Len(buffer)
     /\ boundary[boundaryIdx + 1] = buffer[bufferIdx + 1]
  THEN 1 + MatchRun(boundary, boundaryIdx + 1, buffer, bufferIdx + 1)
  ELSE 0

\* Uint8Array.prototype.indexOf(byte, fromIndex)
ByteIndexOf(buffer, byte, fromIndex) ==
  LET hits == { i \in Max(fromIndex, 0)..(Len(buffer) - 1) : buffer[i + 1] = byte }
  IN IF hits = {} THEN -1 ELSE CHOOSE i \in hits : \A j \in hits : i <= j

\* SkipTable that shifts by the boundary's length whatever the byte
SkipTable_AlwaysFull(boundary, byte) == Len(boundary) % 256

\* the bad-character table of indexOf(), an entry of a Uint8Array
SkipTable(boundary, byte) ==
  LET boundaryEndIdx == Len(boundary) - 1
      idxs == { idx \in 0..(boundaryEndIdx - 1) : boundary[idx + 1] = byte }
  IN IF idxs = {} THEN Len(boundary) % 256
     ELSE (boundaryEndIdx - (CHOOSE i \in idxs : \A j \in idxs : j <= i)) % 256

\* what stands for an indexOf() that does not return: its loop has added a
\* table entry of 0 to idx and looks at the same window for ever
IndexStalled == 0 - 2

RECURSIVE IndexOfLoop(_, _, _)
IndexOfLoop(buffer, boundary, idx) ==
  LET boundaryEndIdx == Len(boundary) - 1
      bufferEndIdx == Len(buffer) - Len(boundary)
  IN IF idx <= bufferEndIdx
     THEN LET bufferByte == buffer[idx + boundaryEndIdx + 1]
          IN IF bufferByte = boundary[boundaryEndIdx + 1] /\ buffer[idx + 1] = boundary[1]
             THEN idx
             ELSE With(SkipTable(boundary, bufferByte), LAMBDA skip :
                    IF skip = 0 THEN IndexStalled
                    ELSE IndexOfLoop(buffer, boundary, idx + skip))
     ELSE ByteIndexOf(buffer, boundary[1], idx)

indexOf(buffer, boundary, fromIndex) == IndexOfLoop(buffer, boundary, fromIndex)

\* the while loop over searchIdx of one iteration, cursor-rewind reader
RECURSIVE SearchB(_, _, _, _, _)
SearchB(r, boundary, buffer, nextBuffer, fromIndex) ==
  LET searchIdx == indexOf(buffer, boundary, fromIndex)
  IN IF searchIdx = -1
     THEN \* (6) not found: emit the full buffer and search the next one
          GenResult(r, "loop", nextBuffer, "yield", Some(buffer))
     ELSE IF searchIdx = IndexStalled
     THEN \* next() stays pending
          GenResult(r, "stalled", nextBuffer, "pending", Null)
     ELSE
       LET run == MatchRun(boundary, 1, buffer, searchIdx + 1)
           boundaryIdx == 1 + run
           bufferIdx == searchIdx + 1 + run
       IN IF boundaryIdx = Len(boundary)
          THEN \* (3.1) complete boundary in buffer
               GenResult(rewind(r, Len(buffer) - bufferIdx), "return", Null,
                         "yield", Some(Take(buffer, searchIdx)))
          ELSE IF bufferIdx = Len(buffer)
          THEN \* (4) partial boundary at the end of buffer
               LET rd == IF IsNull(nextBuffer) THEN readB(r)
                         ELSE [r |-> r, out |-> nextBuffer]
               IN IF IsNull(rd.out)
                  THEN GenResult(rd.r, "return", Null, "yield", Null)
                  ELSE LET run2 == MatchRun(boundary, boundaryIdx, Val(rd.out), 0)
                       IN IF boundaryIdx + run2 = Len(boundary)
                          THEN GenResult(rewind(rd.r, Len(Val(rd.out)) - run2), "return",
                                         Null, "yield", Some(Take(buffer, searchIdx)))
                          ELSE SearchB(rd.r, boundary, buffer, rd.out, searchIdx + 1)
          ELSE SearchB(r, boundary, buffer, nextBuffer, searchIdx + 1)

\* the loop that ends without a null where the source has ended
SearchLoopB_NoNull(r, boundary, buffer) ==
  IF ~IsNull(buffer)
  THEN SearchB(r, boundary, Val(buffer), Null, 0)
  ELSE LET rd == readB(r)
       IN IF IsNull(rd.out)
          THEN GenResult(rd.r, "done", Null, "done", Null)
          ELSE SearchB(rd.r, boundary, Val(rd.out), Null, 0)

\* the for loop's condition followed by one iteration
SearchLoopB(r, boundary, buffer) ==
  IF ~IsNull(buffer)
  THEN SearchB(r, boundary, Val(buffer), Null, 0)
  ELSE LET rd == readB(r)
       IN IF IsNull(rd.out)
          THEN GenResult(rd.r, "final", Null, "yield", Null)
          ELSE SearchB(rd.r, boundary, Val(rd.out), Null, 0)

\* readUntilBoundary that reads its first block before it looks at the
\* length of the boundary
readUntilBoundaryB_ReadsFirst(g, r, boundary) ==
  IF g.pc = "start"
  THEN LET rd == readB(r)
       IN IF Len(boundary) > r.blockSize
          THEN GenResult(rd.r, "done", Null, "throw", Null)
          ELSE SearchLoopB(rd.r, boundary, rd.out)
  ELSE IF g.pc = "loop"
  THEN SearchLoopB(r, boundary, g.buffer)
  ELSE GenResult(r, "done", Null, "done", Null)

readUntilBoundaryB(g, r, boundary) ==
  IF g.pc = "start"
  THEN IF Len(boundary) > r.blockSize
       THEN GenResult(r, "done", Null, "throw", Null)
       ELSE LET rd == readB(r) IN SearchLoopB(rd.r, boundary, rd.out)
  ELSE IF g.pc = "loop"
  THEN SearchLoopB(r, boundary, g.buffer)
  ELSE GenResult(r, "done", Null, "done", Null)

\* the while loop over searchIdx of one iteration, pushback reader
RECURSIVE SearchA(_, _, _, _, _)
SearchA(r, boundary, buffer, nextBuffer, fromIndex) ==
  LET searchIdx == ByteIndexOf(buffer, boundary[1], fromIndex)
  IN IF searchIdx = -1
     THEN GenResult(r, "loop", nextBuffer, "yield", Some(buffer))
     ELSE
       LET run == MatchRun(boundary, 1, buffer, searchIdx + 1)
           boundaryIdx == 1 + run
           bufferIdx == searchIdx + 1 + run
       IN IF boundaryIdx = Len(boundary)
          THEN GenResult(pushbackA(r, Drop(buffer, bufferIdx)), "return", Null,
                         "yield", Some(Take(buffer, searchIdx)))
          ELSE IF bufferIdx = Len(buffer)
          THEN LET rd == IF IsNull(nextBuffer) THEN readA(r, TRUE)
                         ELSE [r |-> r, out |-> nextBuffer]
               IN IF IsNull(rd.out)
                  THEN GenResult(rd.r, "return", Null, "yield", Null)
                  ELSE LET run2 == MatchRun(boundary, boundaryIdx, Val(rd.out), 0)
                       IN IF boundaryIdx + run2 = Len(boundary)
                          THEN GenResult(pushbackA(rd.r, Drop(Val(rd.out), run2)), "return",
                                         Null, "yield", Some(Take(buffer, searchIdx)))
                          ELSE SearchA(rd.r, boundary, buffer, rd.out, searchIdx + 1)
          ELSE SearchA(r, boundary, buffer, nextBuffer, searchIdx + 1)

SearchLoopA(r, boundary, buffer) ==
  IF ~IsNull(buffer)
  THEN SearchA(r, boundary, Val(buffer), Null, 0)
  ELSE LET rd == readA(r, TRUE)
       IN IF IsNull(rd.out)
          THEN GenResult(rd.r, "final", Null, "yield", Null)
          ELSE SearchA(rd.r, boundary, Val(rd.out), Null, 0)

readUntilBoundaryA(g, r, boundary) ==
  IF g.pc = "start"
  THEN IF Len(boundary) > r.blockSize
       THEN GenResult(r, "done", Null, "throw", Null)
       ELSE LET rd == readA(r, TRUE) IN SearchLoopA(rd.r, boundary, rd.out)
  ELSE IF g.pc = "loop"
  THEN SearchLoopA(r, boundary, g.buffer)
  ELSE GenResult(r, "done", Null, "done", Null)

----------------------------------------------------------------------------
(* Harness: an arbitrary caller of the block reader *)

MaxStream == 5     \* longest source stream of the reader harness
MaxBlock == 3      \* largest block size of the reader harness

Unused == <<>>

\* the source streams of the harness: bytes are their own positions
Streams == { [i \in 1..n |-> i] : n \in 0..MaxStream }

Call(op, arg, out, ret, before, slice) ==
  [op |-> op, arg |-> arg, out |-> out, ret |-> ret, before |-> before, slice |-> slice]

OutBytes(out) == IF IsNull(out) THEN <<>> ELSE Val(out)

\* what a skip of n bytes is taken to have discarded: the next bytes in turn
Skipped(skippedCount) ==
  [i \in 1..skippedCount |-> Len(delivered) + i]

InitA ==
  /\ orig \in Streams
  /\ \E chunks \in Chunkings(orig), blockSize \in 2..MaxBlock :
       reader = NewReaderA(chunks, blockSize)
  /\ delivered = <<>>
  /\ last = Call("init", 0, Null, 0, 0, <<>>)
  /\ pipe = Unused
  /\ input = Unused

ARead ==
  \E allowPartialEnd \in BOOLEAN :
    LET res == readA(reader, allowPartialEnd)
    IN /\ reader' = res.r
       /\ delivered' = delivered \o OutBytes(res.out)
       /\ last' = Call("read", IF allowPartialEnd THEN 1 ELSE 0, res.out, 0,
                       Len(delivered), OutBytes(res.out))
       /\ UNCHANGED <<orig, pipe, input>>

APull ==
  \E maxSize \in 1..(reader.blockSize + 1) :
    LET res == pullA(reader, maxSize)
    IN /\ reader' = res.r
       /\ delivered' = delivered \o OutBytes(res.out)
       /\ last' = Call("pull", maxSize, res.out, 0, Len(delivered), OutBytes(res.out))
       /\ UNCHANGED <<orig, pipe, input>>

ASkip ==
  \E requestedSize \in 0..(reader.blockSize + 1) :
    LET res == skipA(reader, requestedSize)
    IN /\ reader' = res.r
       /\ delivered' = delivered \o Skipped(requestedSize - res.out)
       /\ last' = Call("skip", requestedSize, Null, res.out, Len(delivered), <<>>)
       /\ UNCHANGED <<orig, pipe, input>>

\* push back the last k bytes of what is left of the slice just returned;
\* last.ret counts the pushbacks made in a row
APushback ==
  \E k \in 1..Len(last.slice) :
    LET buf == Drop(last.slice, Len(last.slice) - k)
    IN /\ ~PushbackOverflowA(reader, buf)
       /\ reader' = pushbackA(reader, buf)
       /\ delivered' = Take(delivered, Len(delivered) - k)
       /\ last' = Call("pushback", k, Null,
                       IF last.op = "pushback" THEN last.ret + 1 ELSE 1,
                       Len(delivered), Take(last.slice, Len(last.slice) - k))
       /\ UNCHANGED <<orig, pipe, input>>

\* pushback beyond the capacity throws a RangeError and changes nothing
APushbackThrows ==
  \E k \in 1..Len(last.slice) :
    LET buf == Drop(last.slice, Len(last.slice) - k)
    IN /\ PushbackOverflowA(reader, buf)
       /\ last' = Call("throw", k, Null, 0, Len(delivered), <<>>)
       /\ UNCHANGED <<reader, delivered, orig, pipe, input>>

NextA == ARead \/ APull \/ ASkip \/ APushback \/ APushbackThrows

SpecA == InitA /\ [][NextA]_vars

InitB ==
  /\ orig \in Streams
  /\ \E chunks \in Chunkings(orig), blockSize \in 2..MaxBlock :
       reader = NewReaderB(chunks, blockSize)
  /\ delivered = <<>>
  /\ last = Call("init", 0, Null, 0, 0, <<>>)
  /\ pipe = Unused
  /\ input = Unused

BRead ==
  LET res == readB(reader)
  IN /\ reader' = res.r
     /\ delivered' = delivered \o OutBytes(res.out)
     /\ last' = Call("read", 0, res.out, 0, Len(delivered), OutBytes(res.out))
     /\ UNCHANGED <<orig, pipe, input>>

BPull ==
  \E maxSize \in 1..(reader.blockSize + 1) :
    LET res == pullB(reader, maxSize)
    IN /\ reader' = res.r
       /\ delivered' = delivered \o OutBytes(res.out)
       /\ last' = Call("pull", maxSize, res.out, 0, Len(delivered), OutBytes(res.out))
       /\ UNCHANGED <<orig, pipe, input>>

BSkip ==
  \E requestedSize \in 0..(reader.blockSize + 1) :
    LET res == skipB(reader, requestedSize)
    IN /\ reader' = res.r
       /\ delivered' = delivered \o Skipped(requestedSize - res.out)
       /\ last' = Call("skip", requestedSize, Null, res.out, Len(delivered), <<>>)
       /\ UNCHANGED <<orig, pipe, input>>

\* rewind by k bytes of the slice just returned by read() or pull()
BRewind ==
  \E k \in 1..Len(last.slice) :
    /\ reader' = rewind(reader, k)
    /\ delivered' = Take(delivered, Len(delivered) - k)
    /\ last' = Call("rewind", k, Null, 0, Len(delivered), <<>>)
    /\ UNCHANGED <<orig, pipe, input>>

NextB == BRead \/ BPull \/ BSkip \/ BRewind

SpecB == InitB /\ [][NextB]_vars

\* pull until the reader returns null
RECURSIVE DrainA(_)
DrainA(r) ==
  LET res == pullA(r, r.blockSize)
  IN IF IsNull(res.out) THEN <<>> ELSE Val(res.out) \o DrainA(res.r)

RECURSIVE DrainB(_)
DrainB(r) ==
  LET res == pullB(r, r.blockSize)
  IN IF IsNull(res.out) THEN <<>> ELSE Val(res.out) \o DrainB(res.r)

----------------------------------------------------------------------------
(* Harness: readUntilBoundary over a chunked stream, then pull/read *)

MaxSearchStream == 6   \* longest stream searched for a boundary

Alphabet == {1, 2}

\* boundaries: single byte, plain, and self-overlapping ones
Boundaries == { <<1>>, <<1, 2>>, <<1, 1>>, <<1, 1, 2>>, <<1, 2, 1>> }

SeqsUpTo(n) == UNION { [1..k -> Alphabet] : k \in 0..n }

OccursAt(s, P, i) == i + Len(P) - 1 <= Len(s) /\ SubSeq(s, i, i + Len(P) - 1) = P

Occurs(s, P) == \E i \in 1..Len(s) : OccursAt(s, P, i)

FirstOccurrence(s, P) ==
  CHOOSE i \in 1..Len(s) : OccursAt(s, P, i) /\ \A j \in 1..(i - 1) : ~OccursAt(s, P, j)

BeforeBoundary(s, P) == Take(s, FirstOccurrence(s, P) - 1)
AfterBoundary(s, P) == Drop(s, FirstOccurrence(s, P) - 1 + Len(P))

InitSearch ==
  /\ \E P \in Boundaries, variant \in {"A", "B"} :
       /\ input = [boundary |-> P, variant |-> variant]
       /\ orig \in { s \in SeqsUpTo(MaxSearchStream) : Occurs(s, P) }
       /\ \E chunks \in Chunkings(orig), blockSize \in Len(P)..MaxBlock :
            reader = IF variant = "A" THEN NewReaderA(chunks, blockSize)
                     ELSE NewReaderB(chunks, blockSize)
  /\ delivered = <<>>
  /\ last = Call("init", 0, Null, 0, 0, <<>>)
  /\ pipe = [g |-> NewSearch, nulls |-> 0, after |-> <<>>]

SearchStep(res) ==
  /\ reader' = res.r
  /\ pipe' = [pipe EXCEPT !.g = res.g,
                          !.nulls = @ + (IF res.kind = "yield" /\ IsNull(res.value)
                                         THEN 1 ELSE 0)]
  /\ delivered' = delivered \o (IF res.kind = "yield" THEN OutBytes(res.value) ELSE <<>>)
  /\ last' = Call("next", 0, res.value, 0, Len(delivered), <<>>)
  /\ UNCHANGED <<orig, input>>

\* one next() on the generator, pushback reader
SearchNextA ==
  /\ input.variant = "A"
  /\ pipe.g.pc # "done"
  /\ SearchStep(readUntilBoundaryA(pipe.g, reader, input.boundary))

\* one next() on the generator, cursor-rewind reader
SearchNextB ==
  /\ input.variant = "B"
  /\ pipe.g.pc # "done"
  /\ SearchStep(readUntilBoundaryB(pipe.g, reader, input.boundary))

AfterStep(op, arg, res) ==
  /\ reader' = res.r
  /\ pipe' = [pipe EXCEPT !.after = @ \o OutBytes(res.out)]
  /\ last' = Call(op, arg, res.out, 0, Len(delivered), <<>>)
  /\ UNCHANGED <<orig, input, delivered>>

\* the caller goes on with the reader once the generator has returned
SearchAfterPullA ==
  /\ input.variant = "A" /\ pipe.g.pc = "done"
  /\ \E maxSize \in 1..reader.blockSize : AfterStep("pull", maxSize, pullA(reader, maxSize))

SearchAfterReadA ==
  /\ input.variant = "A" /\ pipe.g.pc = "done"
  /\ \E allowPartialEnd \in BOOLEAN :
       AfterStep("read", IF allowPartialEnd THEN 1 ELSE 0, readA(reader, allowPartialEnd))

SearchAfterPullB ==
  /\ input.variant = "B" /\ pipe.g.pc = "done"
  /\ \E maxSize \in 1..reader.blockSize : AfterStep("pull", maxSize, pullB(reader, maxSize))

SearchAfterReadB ==
  /\ input.variant = "B" /\ pipe.g.pc = "done"
  /\ AfterStep("read", 0, readB(reader))

NextSearch ==
  \/ SearchNextA \/ SearchNextB
  \/ SearchAfterPullA \/ SearchAfterReadA
  \/ SearchAfterPullB \/ SearchAfterReadB

SpecSearch == InitSearch /\ [][NextSearch]_vars

DrainSearch == IF input.variant = "A" THEN DrainA(reader) ELSE DrainB(reader)

----------------------------------------------------------------------------
(* C3: boundary search *)

\* C3: for a stream that contains the boundary, the slices yielded by
\* readUntilBoundary concatenate to exactly the bytes before the first
\* occurrence, null is never yielded, and afterwards the reader delivers
\* exactly the bytes that follow that occurrence.
BoundarySearchExact ==
  /\ pipe.nulls = 0
  /\ IsPrefix(delivered, BeforeBoundary(orig, input.boundary))
  /\ pipe.g.pc \in {"return", "done"} =>
       /\ delivered = BeforeBoundary(orig, input.boundary)
       /\ pipe.after \o DrainSearch = AfterBoundary(orig, input.boundary)

\* a boundary found across two blocks, after a look-alike prefix of itself
\* failed to complete, with bytes following it
BoundarySearchWitness ==
  /\ pipe.g.pc = "done"
  /\ input.boundary = <<1, 1, 2>>
  /\ reader.blockSize = 3
  /\ orig = <<2, 1, 1, 1, 2, 2>>
  /\ pipe.after = <<2>>

----------------------------------------------------------------------------
(* C4: the block reader never loses bytes *)

\* C4 (counterexample, over both readers): the bytes delivered by read and
\* pull and discarded by skip, net of the bytes pushed back or rewound, are
\* a prefix of the source stream, and once the source has ended and read and
\* pull both return null every source byte has been accounted for.
DeliveredIsPrefix == IsPrefix(delivered, orig)

NeverLosesBytesA ==
  /\ DeliveredIsPrefix
  /\ (IsNull(readA(reader, FALSE).out) /\ IsNull(pullA(reader, 1).out))
       => delivered = orig

NeverLosesBytesB ==
  /\ DeliveredIsPrefix
  /\ (IsNull(readB(reader).out) /\ IsNull(pullB(reader, 1).out))
       => delivered = orig

----------------------------------------------------------------------------
(* C10: read() with and without allowPartialEnd *)

\* C10: read(false) returns a slice of exactly blockSize bytes or null; it
\* returns null exactly when fewer than blockSize unread bytes remain, the
\* unread bytes then stay available to pull, in order, and further reads
\* return null again.  read(true) returns the final short slice once and
\* then null.
ReadBlockOrNull ==
  LET B == reader.blockSize
      rest == Drop(orig, last.before)
  IN /\ (last.op = "read" /\ last.arg = 0) =>
          /\ IsNull(last.out) \/ Len(Val(last.out)) = B
          /\ IsNull(last.out) <=> Len(rest) < B
          /\ IsNull(last.out) =>
               /\ DrainA(reader) = rest
               /\ IsNull(readA(reader, FALSE).out)
     /\ (last.op = "read" /\ last.arg = 1) =>
          /\ Len(rest) >= B => last.out = Some(Take(rest, B))
          /\ (Len(rest) < B /\ Len(rest) > 0) =>
               /\ last.out = Some(rest)
               /\ IsNull(readA(reader, TRUE).out)
          /\ Len(rest) = 0 => IsNull(last.out)

\* a read(false) that failed on a short tail and pushed it back
ReadBlockOrNullWitness ==
  /\ last.op = "read" /\ last.arg = 0
  /\ IsNull(last.out)
  /\ reader.bufferSize > 0
  /\ Len(delivered) > 0

----------------------------------------------------------------------------
(* Tar: shared definitions (tarShared) and the header codecs.              *)
(*                                                                         *)
(* Layout.  A stream is a sequence of cells and the reader counts cells.   *)
(* A payload cell is one byte.  A header block is scaled from 512 bytes to *)
(* BLOCK_SIZE cells, one cell per header field in the order of the ustar   *)
(* layout: 1 name, 2 mode, 3 uid, 4 gid, 5 size, 6 mtime, 7 chksum,        *)
(* 8 typeflag, 9 linkname, 10 magic, 11 version, 12 uname, 13 gname,       *)
(* 14 devmajor, 15 devminor, 16 prefix.  A cell holds the bytes of its     *)
(* field with the trailing NULs dropped, so the all-NUL field (and the NUL *)
(* byte) is <<>>.  Numeric fields keep their real widths (8 and 12 bytes); *)
(* the widths of the name fields are scaled (MAX_NAME_LEN, MAX_PREFIX_LEN).*)
(* Strings are sequences of character codes; the empty string, null and    *)
(* undefined are all <<>> (the code only tests strings for truthiness).    *)

BLOCK_SIZE == 16
CHECKSUM_INITIAL == 256
MAX_NAME_LEN == 5
MAX_PREFIX_LEN == 6

OLD_FILE == 0
CONTIGUOUS_FILE == 55
CHAR_DEV == 51
LONG_LINK_NAME == 75
LONG_NAME == 76
OLD_LONG_NAME == 78
GAX == 103
PAX == 120
FILE == 48
LINK == 49
SYMLINK == 50
DIRECTORY == 53

\* "ustar"
MAGIC == <<117, 115, 116, 97, 114>>
\* "00"
VERSION == <<48, 48>>
SLASH == 47

BLOCK_DEV == 52
FIFO == 54

blockPad(size) ==
  LET mask == size % BLOCK_SIZE
  IN IF mask = 0 THEN 0 ELSE BLOCK_SIZE - mask

\* the bytes of a cell read as payload: the cell <<>> is one NUL byte
BytesOf(cell) == IF cell = <<>> THEN <<0>> ELSE cell

RECURSIVE BlockBytes(_)
BlockBytes(block) ==
  IF block = <<>> THEN <<>> ELSE BytesOf(Head(block)) \o BlockBytes(Tail(block))

\* field i of a header block, <<>> where the block is too short
Field(buffer, i) == IF i <= Len(buffer) THEN buffer[i] ELSE <<>>

\* byte idx (0-based) of a field of the given width
ByteAt(f, idx) == IF idx < Len(f) THEN f[idx + 1] ELSE 0

\* a field's bytes with the trailing NULs dropped
RECURSIVE TrimNul(_)
TrimNul(s) ==
  IF s = <<>> THEN <<>>
  ELSE IF s[Len(s)] = 0 THEN TrimNul(Take(s, Len(s) - 1)) ELSE s

\* decodeString(bytes, from, to) on the field f of width to - from, read from
\* byte `from` of the field on
decodeString(f, from, width) ==
  LET ends == { e \in from..width : e = width \/ ByteAt(f, e) = 0 }
      end == CHOOSE e \in ends : \A e2 \in ends : e <= e2
  IN IF end > from THEN SubSeq(f, from + 1, end) ELSE <<>>

IsDigit(c, radix) == c >= 48 /\ c < 48 + radix

\* parseInt(s, radix) for radix <= 10: leading white space and a sign are
\* skipped, digits are read up to the first other character; Null is NaN
RECURSIVE ParseDigits(_, _, _)
ParseDigits(s, radix, acc) ==
  IF s # <<>> /\ IsDigit(Head(s), radix)
  THEN ParseDigits(Tail(s), radix, acc * radix + (Head(s) - 48))
  ELSE acc

RECURSIVE parseInt(_, _)
parseInt(s, radix) ==
  IF s = <<>> THEN Null
  ELSE IF Head(s) \in {32, 9, 10, 13} THEN parseInt(Tail(s), radix)
  ELSE IF Head(s) = 45
  THEN IF Len(s) > 1 /\ IsDigit(s[2], radix)
       THEN Some(0 - ParseDigits(Tail(s), radix, 0)) ELSE Null
  ELSE IF Head(s) = 43
  THEN IF Len(s) > 1 /\ IsDigit(s[2], radix)
       THEN Some(ParseDigits(Tail(s), radix, 0)) ELSE Null
  ELSE IF IsDigit(Head(s), radix) THEN Some(ParseDigits(s, radix, 0))
  ELSE Null

\* Number(value) (the unary plus of decodePax) on a string of decimal
\* digits; 0 for the empty string, Null (NaN) otherwise
ToNumber(s) ==
  IF s = <<>> THEN Some(0)
  ELSE IF \A i \in 1..Len(s) : IsDigit(s[i], 10) THEN Some(ParseDigits(s, 10, 0))
  ELSE Null

Pow256(n) == 256 ^ n

\* decodeOctal(bytes, from, to) on the field f of width to - from
decodeOctal(f, width) ==
  LET end == width - 1
  IN IF ByteAt(f, 0) = 128
     THEN LET RECURSIVE Sum256(_)
              Sum256(idx) ==
                IF idx < 1 THEN 0
                ELSE (IF ByteAt(f, idx) = 0 THEN 0
                      ELSE ByteAt(f, idx) * Pow256(end - idx)) + Sum256(idx - 1)
          IN Sum256(end)
     ELSE IF ByteAt(f, 0) = 255
     THEN LET RECURSIVE Neg256(_, _)
              Neg256(idx, flipped) ==
                IF idx < 0 THEN 0
                ELSE LET byte == ByteAt(f, idx)
                         fl == (IF flipped THEN 255 - byte ELSE (255 - byte) + 1) % 256
                     IN (IF fl = 0 THEN 0 ELSE 0 - fl * Pow256(end - idx))
                          + Neg256(idx - 1, flipped \/ byte # 0)
          IN Neg256(end, FALSE)
     ELSE LET skips == { i \in 0..width : i = width \/ ByteAt(f, i) \notin {32, 0} }
              idx == CHOOSE i \in skips : \A j \in skips : i <= j
              val == IF end # idx THEN parseInt(decodeString(f, idx, width), 8)
                     ELSE Some(0)
          IN IF IsNull(val) THEN 0 ELSE Val(val)

\* NaN, the one number the model keeps apart from the integers
NaN == 0 - 2147483647
Truthy(n) == n # 0 /\ n # NaN
OrZero(n) == IF Truthy(n) THEN n ELSE 0
NumberOf(s) == LET n == ToNumber(s) IN IF IsNull(n) THEN NaN ELSE Val(n)

\* String.prototype.slice(from, to) for from >= 0
Slice(s, from, to) ==
  IF to < 0 \/ from >= Min(to, Len(s)) THEN <<>> ELSE SubSeq(s, from + 1, Min(to, Len(s)))

EmptyHeader ==
  [ name |-> <<>>, mode |-> 0, uid |-> 0, gid |-> 0, size |-> 0, mtime |-> 0,
    typeflag |-> FILE, linkname |-> <<>>, uname |-> <<>>, gname |-> <<>>,
    devmajor |-> 0, devminor |-> 0,
    prefix |-> <<>>, longName |-> <<>>, longLinkName |-> <<>>,
    paxName |-> <<>>, paxLinkName |-> <<>>, paxSize |-> Null ]

\* initTarHeader(gax); gax is Null or Some(header)
initTarHeader(gax) ==
  IF IsNull(gax) THEN EmptyHeader
  ELSE LET g == Val(gax)
       IN [ EmptyHeader EXCEPT
              !.name = g.name, !.mode = OrZero(g.mode), !.uid = OrZero(g.uid),
              !.gid = OrZero(g.gid), !.size = OrZero(g.size), !.mtime = OrZero(g.mtime),
              !.typeflag = IF Truthy(g.typeflag) THEN g.typeflag ELSE FILE,
              !.linkname = g.linkname, !.uname = g.uname, !.gname = g.gname,
              !.devmajor = OrZero(g.devmajor), !.devminor = OrZero(g.devminor) ]

getTarName(header) ==
  IF header.longName # <<>> THEN header.longName
  ELSE IF header.paxName # <<>> THEN header.paxName
  ELSE IF header.prefix # <<>> THEN header.prefix \o <<SLASH>> \o header.name
  ELSE header.name

getTarLinkName(header) ==
  IF header.longLinkName # <<>> THEN header.longLinkName
  ELSE IF header.paxLinkName # <<>> THEN header.paxLinkName
  ELSE header.linkname

getTarSize(header) ==
  IF ~IsNull(header.paxSize) /\ Truthy(Val(header.paxSize)) THEN Val(header.paxSize)
  ELSE header.size

getTypeFlag(bytes) == ByteAt(Field(bytes, 8), 0)

checkMagic(bytes) ==
  LET magic == Field(bytes, 10)
  IN /\ \A i \in 0..4 : ByteAt(magic, i) = MAGIC[i + 1]
     /\ ByteAt(magic, 5) \in {0, 32}

RECURSIVE SumBytes(_)
SumBytes(s) == IF s = <<>> THEN 0 ELSE Head(s) + SumBytes(Tail(s))

\* the sum of the bytes of a block outside its chksum field
RECURSIVE SumFields(_, _)
SumFields(bytes, i) ==
  IF i > Len(bytes) THEN 0
  ELSE (IF i = 7 THEN 0 ELSE SumBytes(bytes[i])) + SumFields(bytes, i + 1)

checkChecksum(bytes) ==
  LET chksum == decodeOctal(Field(bytes, 7), 8)
      sum == CHECKSUM_INITIAL + SumFields(bytes, 1)
  IN IF chksum = CHECKSUM_INITIAL THEN CHECKSUM_INITIAL
     ELSE IF sum = chksum THEN sum ELSE 0

decodeBase(header, buffer) ==
  LET name == decodeString(Field(buffer, 1), 0, MAX_NAME_LEN)
      typeflag == getTypeFlag(buffer)
      uname == decodeString(Field(buffer, 12), 0, 32)
      gname == decodeString(Field(buffer, 13), 0, 32)
  IN [ header EXCEPT
         !.name = name,
         !.mode = IF Truthy(header.mode) THEN header.mode
                  ELSE decodeOctal(Field(buffer, 2), 8),
         !.uid = IF Truthy(header.uid) THEN header.uid
                 ELSE decodeOctal(Field(buffer, 3), 8),
         !.gid = IF Truthy(header.gid) THEN header.gid
                 ELSE decodeOctal(Field(buffer, 4), 8),
         !.size = decodeOctal(Field(buffer, 5), 12),
         !.mtime = IF Truthy(header.mtime) THEN header.mtime
                   ELSE decodeOctal(Field(buffer, 6), 12),
         !.typeflag = IF typeflag = OLD_FILE /\ name # <<>> /\ name[Len(name)] = SLASH
                      THEN DIRECTORY ELSE typeflag,
         !.linkname = decodeString(Field(buffer, 9), 0, MAX_NAME_LEN),
         !.uname = IF header.uname # <<>> THEN header.uname ELSE uname,
         !.gname = IF header.gname # <<>> THEN header.gname ELSE gname,
         !.devmajor = decodeOctal(Field(buffer, 14), 8),
         !.devminor = decodeOctal(Field(buffer, 15), 8),
         !.prefix = IF ByteAt(Field(buffer, 16), 0) # 0
                    THEN decodeString(Field(buffer, 16), 0, MAX_PREFIX_LEN)
                    ELSE header.prefix ]

\* decodeLongString(reader, size): [r, out, err]
decodeLongString(r, size) ==
  IF size > 0
  THEN With(readB(r), LAMBDA rd :
         IF IsNull(rd.out)
         THEN [r |-> rd.r, out |-> <<>>,
               err |-> "Invalid Tar: Unexpected EOF while parsing long string"]
         ELSE LET bytes == BlockBytes(Val(rd.out))
                  endIndex == ByteIndexOf(bytes, 0, 0)
              IN [r |-> rd.r,
                  out |-> IF endIndex > -1 THEN Take(bytes, endIndex) ELSE bytes,
                  err |-> ""])
  ELSE [r |-> r, out |-> <<>>, err |-> ""]

\* the read loop of decodePax: [r, pax, err]
RECURSIVE PaxRead(_, _, _)
PaxRead(r, remaining, pax) ==
  IF remaining > 0
  THEN With(readB(r), LAMBDA rd :
         IF IsNull(rd.out)
         THEN [r |-> rd.r, pax |-> pax,
               err |-> "Invalid Tar: Unexpected EOF while parsing PAX data"]
         ELSE LET block == Val(rd.out)
                  rem == remaining - Len(block)
                  cut == IF rem < 0 THEN Take(block, Max(Len(block) + rem, 0)) ELSE block
              IN PaxRead(rd.r, rem, pax \o BlockBytes(cut)))
  ELSE [r |-> r, pax |-> pax, err |-> ""]

KeyPath == <<112, 97, 116, 104>>
KeyLinkpath == <<108, 105, 110, 107, 112, 97, 116, 104>>
KeySize == <<115, 105, 122, 101>>
KeyGid == <<103, 105, 100>>
KeyUid == <<117, 105, 100>>
KeyMode == <<109, 111, 100, 101>>
KeyMtime == <<109, 116, 105, 109, 101>>
KeyUname == <<117, 110, 97, 109, 101>>
KeyGname == <<103, 110, 97, 109, 101>>

\* the switch of decodePax on one record, applied to one header
PaxApply(h, key, value) ==
  IF key = KeyPath THEN [h EXCEPT !.paxName = value]
  ELSE IF key = KeyLinkpath THEN [h EXCEPT !.paxLinkName = value]
  ELSE IF key = KeySize THEN [h EXCEPT !.paxSize = Some(NumberOf(value))]
  ELSE IF key = KeyGid THEN [h EXCEPT !.gid = NumberOf(value)]
  ELSE IF key = KeyUid THEN [h EXCEPT !.uid = NumberOf(value)]
  ELSE IF key = KeyMode THEN [h EXCEPT !.mode = NumberOf(value)]
  ELSE IF key = KeyMtime THEN [h EXCEPT !.mtime = NumberOf(value)]
  ELSE IF key = KeyUname THEN [h EXCEPT !.uname = value]
  ELSE IF key = KeyGname THEN [h EXCEPT !.gname = value]
  ELSE h

\* the record loop of decodePax: `to` restarts from 0 in every iteration
RECURSIVE PaxRecords(_, _, _, _)
PaxRecords(pax, from, gax, header) ==
  IF from < Len(pax)
  THEN LET tos == { t \in 0..Len(pax) : t = Len(pax) \/ pax[t + 1] = 32 }
           to == CHOOSE t \in tos : \A t2 \in tos : t <= t2
           length == parseInt(Slice(pax, from, to), 10)
       IN IF IsNull(length) \/ Val(length) = 0
          THEN [gax |-> gax, header |-> header]
          ELSE IF from + Val(length) - 1 < 0 \/ from + Val(length) - 1 >= Len(pax)
                  \/ pax[from + Val(length)] # 10
          THEN [gax |-> gax, header |-> header]
          ELSE LET entry == Slice(pax, to + 1, from + Val(length) - 1)
                   keyIndex == ByteIndexOf(entry, 61, 0)
               IN IF keyIndex = -1
                  THEN [gax |-> gax, header |-> header]
                  ELSE LET key == Take(entry, keyIndex)
                           value == Drop(entry, keyIndex + 1)
                       IN PaxRecords(pax, from + Val(length),
                                     IF IsNull(gax) THEN gax
                                     ELSE Some(PaxApply(Val(gax), key, value)),
                                     PaxApply(header, key, value))
  ELSE [gax |-> gax, header |-> header]

\* decodePax(reader, gax, header): [r, gax, header, err]; gax is Null for 'x'
decodePax(r, gax, header) ==
  With(PaxRead(r, header.size, <<>>), LAMBDA rd :
    IF rd.err # ""
    THEN [r |-> rd.r, gax |-> gax, header |-> header, err |-> rd.err]
    ELSE With(PaxRecords(rd.pax, 0, gax, header), LAMBDA rec :
           [r |-> rd.r, gax |-> rec.gax, header |-> rec.header, err |-> ""]))

IsZeroCell(cell) == TrimNul(cell) = <<>>

\* the switch of decodeHeader on the type of the block read, its header
\* fields decoded into based: [r, gax, header, err], or more of the loop
RECURSIVE DecodeHeaderLoop(_, _, _)
DecodeBlock(r, gax, buffer, based) ==
  LET typeflag == getTypeFlag(buffer)
      Throw(rr, msg) == [r |-> rr, gax |-> gax, header |-> Null, err |-> msg]
  IN IF typeflag \in {LONG_NAME, OLD_LONG_NAME, LONG_LINK_NAME}
     THEN With(decodeLongString(r, based.size), LAMBDA ls :
            IF ls.err # "" THEN Throw(ls.r, ls.err)
            ELSE DecodeHeaderLoop(ls.r, gax,
                   IF typeflag = LONG_LINK_NAME
                   THEN [based EXCEPT !.longLinkName = ls.out]
                   ELSE [based EXCEPT !.longName = ls.out]))
     ELSE IF typeflag \in {GAX, PAX}
     THEN With(decodePax(r, IF typeflag = GAX THEN Some(gax) ELSE Null, based), LAMBDA px :
            IF px.err # "" THEN Throw(px.r, px.err)
            ELSE DecodeHeaderLoop(px.r, IF typeflag = GAX THEN Val(px.gax) ELSE gax,
                                  px.header))
     ELSE IF typeflag \in {OLD_FILE, CONTIGUOUS_FILE, FILE, LINK, SYMLINK, DIRECTORY}
     THEN [r |-> r, gax |-> gax, header |-> Some(based), err |-> ""]
     ELSE IF checkChecksum(buffer) = 0
     THEN Throw(r, "Invalid Tar: Unexpected block with invalid checksum")
     ELSE [r |-> r, gax |-> gax, header |-> Some(based), err |-> ""]

\* decodeHeader that reads on past an all-zero block
DecodeHeaderLoop_PastZero(r, gax, header) ==
  With(readB(r), LAMBDA rd :
    IF ~IsNull(rd.out) /\ checkMagic(Val(rd.out))
    THEN With(decodeBase(header, Val(rd.out)), LAMBDA based :
           DecodeBlock(rd.r, gax, Val(rd.out), based))
    ELSE IF ~IsNull(rd.out) /\ \E idx \in 1..Len(Val(rd.out)) : ~IsZeroCell(Val(rd.out)[idx])
    THEN [r |-> rd.r, gax |-> gax, header |-> Null,
          err |-> "Invalid Tar: Unexpected non-header block"]
    ELSE IF ~IsNull(rd.out)
    THEN DecodeHeaderLoop(rd.r, gax, header)
    ELSE [r |-> rd.r, gax |-> gax, header |-> Null, err |-> ""])

\* decodeHeader(reader, gax): [r, gax, header, err]; header is Null at the
\* end of the archive
DecodeHeaderLoop(r, gax, header) ==
  With(readB(r), LAMBDA rd :
    IF ~IsNull(rd.out) /\ checkMagic(Val(rd.out))
    THEN With(decodeBase(header, Val(rd.out)), LAMBDA based :
           DecodeBlock(rd.r, gax, Val(rd.out), based))
    ELSE IF ~IsNull(rd.out) /\ \E idx \in 1..Len(Val(rd.out)) : ~IsZeroCell(Val(rd.out)[idx])
    THEN [r |-> rd.r, gax |-> gax, header |-> Null,
          err |-> "Invalid Tar: Unexpected non-header block"]
    ELSE [r |-> rd.r, gax |-> gax, header |-> Null, err |-> ""])

decodeHeader(r, gax) == DecodeHeaderLoop(r, gax, initTarHeader(Some(gax)))

\* the cells the reader has not handed out yet
UnreadB(r) ==
  Drop(r.block, r.blockSize - r.blockRewind)
    \o (IF IsNull(r.input) THEN <<>> ELSE Drop(Val(r.input), r.inputOffset))
    \o Flatten(r.next)

\* number of cells of the source consumed from the reader
Consumed(r) == Len(orig) - Len(UnreadB(r))

IsFileType(typeflag) == typeflag \in {OLD_FILE, CONTIGUOUS_FILE, FILE}
IsChunkType(typeflag) == typeflag \in {LINK, SYMLINK, DIRECTORY}

\* new TarFile(stream, header) / new TarChunk(stream, header), with the two
\* sizes of its header, what the consumer has read of its stream (data,
\* complete), how the consumer has treated it (how: "none", "part", "full"
\* or "cancel") and the position of the reader when it was yielded (start)
\* and when the generator went on to the next header (finish, -1 before)
TarEntry(header, start) ==
  [ name |-> getTarName(header),
    size |-> OrZero(getTarSize(header)),
    typeflag |-> IF IsFileType(header.typeflag) THEN FILE ELSE header.typeflag,
    mode |-> header.mode, uid |-> header.uid, gid |-> header.gid,
    mtime |-> header.mtime,
    linkname |-> IF IsFileType(header.typeflag) THEN <<>> ELSE getTarLinkName(header),
    uname |-> header.uname, gname |-> header.gname,
    headerSize |-> header.size, paxSize |-> header.paxSize,
    data |-> <<>>, complete |-> FALSE, how |-> "none",
    start |-> start, finish |-> 0 - 1 ]

NewStream == [state |-> "readable", locked |-> FALSE, err |-> ""]

\* the generator of untar before its first next()
NewUntar ==
  [ pc |-> "start", gax |-> initTarHeader(Null), header |-> EmptyHeader,
    pad |-> 0, consumedTrailer |-> TRUE, remaining |-> 0,
    stream |-> [NewStream EXCEPT !.state = "closed"],
    entries |-> <<>>, err |-> "" ]

\* cancel() that leaves the padding of the payload in the stream
tarCancel_NoPad(p, r) ==
  LET rem1 == p.remaining
      p1 == [p EXCEPT !.consumedTrailer = TRUE, !.remaining = rem1]
  IN IF rem1 > 0
     THEN With(skipB(r, rem1), LAMBDA sk :
            IF sk.out > 0
            THEN [p |-> p1, r |-> sk.r, err |-> "Invalid Tar: Unexpected EOF"]
            ELSE [p |-> [p1 EXCEPT !.remaining = 0], r |-> sk.r, err |-> ""])
     ELSE [p |-> p1, r |-> r, err |-> ""]

\* cancel() of the entry's stream: [p, r, err]
tarCancel(p, r) ==
  LET rem1 == IF ~p.consumedTrailer THEN p.remaining + p.pad ELSE p.remaining
      p1 == [p EXCEPT !.consumedTrailer = TRUE, !.remaining = rem1]
  IN IF rem1 > 0
     THEN With(skipB(r, rem1), LAMBDA sk :
            IF sk.out > 0
            THEN [p |-> p1, r |-> sk.r, err |-> "Invalid Tar: Unexpected EOF"]
            ELSE [p |-> [p1 EXCEPT !.remaining = 0], r |-> sk.r, err |-> ""])
     ELSE [p |-> p1, r |-> r, err |-> ""]

\* the second half of pull(controller): the padding is skipped and the
\* stream closed
TarPullEnd(p, r, enq) ==
  IF ~p.consumedTrailer
  THEN With(skipB(r, p.pad), LAMBDA sk :
         [p |-> [p EXCEPT !.consumedTrailer = TRUE], r |-> sk.r, enq |-> enq,
          close |-> sk.out <= 0,
          err |-> IF sk.out > 0 THEN "Invalid Tar: Unexpected EOF" ELSE ""])
  ELSE [p |-> p, r |-> r, enq |-> enq, close |-> TRUE, err |-> ""]

\* pull(controller) of the entry's stream: [p, r, enq, close, err]
tarPull(p, r) ==
  IF p.remaining # 0
  THEN With(pullB(r, p.remaining), LAMBDA pl :
         IF IsNull(pl.out)
         THEN [p |-> p, r |-> pl.r, enq |-> Null, close |-> FALSE,
               err |-> "Invalid Tar: Unexpected EOF"]
         ELSE IF p.remaining = Len(Val(pl.out))
         THEN TarPullEnd([p EXCEPT !.remaining = 0], pl.r, pl.out)
         ELSE [p |-> [p EXCEPT !.remaining = p.remaining - Len(Val(pl.out))],
               r |-> pl.r, enq |-> pl.out, close |-> FALSE, err |-> ""])
  ELSE TarPullEnd(p, r, Null)

Fail(p, r, msg) == [p |-> [p EXCEPT !.pc = "failed", !.err = msg], r |-> r]

\* the while loop of untar from decodeHeader to the next yield: [p, r]
RECURSIVE UntarLoop(_, _)
UntarLoop(p, r) ==
  With(decodeHeader(r, p.gax), LAMBDA dh :
    IF dh.err # "" THEN Fail([p EXCEPT !.gax = dh.gax], dh.r, dh.err)
    ELSE IF IsNull(dh.header) THEN [p |-> [p EXCEPT !.gax = dh.gax, !.pc = "done"], r |-> dh.r]
    ELSE LET header == Val(dh.header)
             pad == blockPad(header.size)
             p1 == [p EXCEPT !.gax = dh.gax, !.header = header, !.pad = pad,
                             !.consumedTrailer = (pad = 0),
                             !.remaining = getTarSize(header),
                             !.stream = NewStream]
         IN IF IsFileType(header.typeflag) \/ IsChunkType(header.typeflag)
            THEN [p |-> [p1 EXCEPT !.pc = "yielded",
                                   !.entries = Append(@, TarEntry(header, Consumed(dh.r)))],
                  r |-> dh.r]
            ELSE With(tarCancel(p1, dh.r), LAMBDA c :
                   IF c.err # "" THEN Fail(c.p, c.r, c.err)
                   ELSE UntarLoop(c.p, c.r)))

\* the generator goes on to the next header: the position is recorded; of
\* a payload that was not read to its end nothing is kept, and of the
\* entries before the one left only whether they were read to their end
UntarContinue(p, r) ==
  LET k == Len(p.entries)
      left == [p EXCEPT !.entries[k].finish = Consumed(r),
                        !.entries[k].data = IF p.entries[k].complete THEN @ ELSE <<>>]
  IN IF k > 1 /\ p.entries[k - 1].how # "full"
     THEN [left EXCEPT !.entries[k - 1].how = "skipped"]
     ELSE left

\* what untar awaits after the consumer has come back for the next entry:
\* (stream.locked ? cancel() : stream.cancel()) where the payload or its
\* padding has not been consumed: [p, r, err]
untarAdvance(p, r) ==
  IF p.pc = "yielded" /\ (p.remaining > 0 \/ ~p.consumedTrailer)
  THEN IF p.stream.locked THEN tarCancel(p, r)
       ELSE IF p.stream.state = "readable"
       THEN With(tarCancel(p, r), LAMBDA c : [c EXCEPT !.p.stream.state = "closed"])
       ELSE [p |-> p, r |-> r, err |-> IF p.stream.state = "errored" THEN p.stream.err ELSE ""]
  ELSE [p |-> p, r |-> r, err |-> ""]

\* one next() of the generator of untar: [p, r]
untarNext(p, r) ==
  IF p.pc \in {"start", "yielded"}
  THEN With(untarAdvance(p, r), LAMBDA c :
         IF c.err # "" THEN Fail(c.p, c.r, c.err)
         ELSE UntarLoop(IF p.pc = "start" THEN c.p ELSE UntarContinue(c.p, c.r), c.r))
  ELSE [p |-> p, r |-> r]

\* the consumer reads once from the stream of the entry last yielded
streamRead(p, r) ==
  With(tarPull(p, r), LAMBDA pl :
    LET k == Len(p.entries)
        p1 == [pl.p EXCEPT !.stream.locked = TRUE,
                           !.entries[k].data = @ \o OutBytes(pl.enq),
                           !.entries[k].how = IF pl.close THEN "full" ELSE "part"]
    IN IF pl.err # ""
       THEN [p |-> [p1 EXCEPT !.stream.state = "errored", !.stream.err = pl.err], r |-> pl.r]
       ELSE IF pl.close
       THEN [p |-> [p1 EXCEPT !.stream.state = "closed", !.entries[k].complete = TRUE],
             r |-> pl.r]
       ELSE [p |-> p1, r |-> pl.r])

\* the consumer cancels the stream of the entry last yielded
streamCancel(p, r) ==
  With(tarCancel(p, r), LAMBDA c :
    [p |-> [c.p EXCEPT !.stream.state = "closed",
                       !.entries[Len(p.entries)].how = "cancel"],
     r |-> c.r])

----------------------------------------------------------------------------
(* Tar encoder (tarOutput) *)

\* Number.prototype.toString(radix) of a non-negative integer
RECURSIVE DigitsOf(_, _)
DigitsOf(n, radix) ==
  IF n < radix THEN <<48 + n>>
  ELSE DigitsOf(n \div radix, radix) \o <<48 + (n % radix)>>

Repeat(c, n) == [i \in 1..n |-> c]

\* encodeString(target, from, to, value) into a fresh field of the given
\* width: encodeInto writes what fits of value followed by NUL
encodeString(width, value) ==
  IF value = <<>> THEN <<>> ELSE TrimNul(Take(value \o <<0>>, Min(width, Len(value) + 1)))

\* the bytes of num, least significant last, in n bytes
RECURSIVE Base256(_, _)
Base256(num, n) ==
  IF n = 0 THEN <<>> ELSE Base256(num \div 256, n - 1) \o <<num % 256>>

\* the two's complement bytes written for a negative value, last byte first
RECURSIVE NegBytes(_, _, _)
NegBytes(num, n, flipped) ==
  IF n = 0 THEN <<>>
  ELSE LET byte == num % 256
           out == IF flipped THEN 255 - byte ELSE ((255 - byte) + 1) % 256
       IN NegBytes(num \div 256, n - 1, flipped \/ byte # 0) \o <<out>>

\* encodeOctal(target, from, to, value) into a fresh field of width
\* length = to - from.  The limit of the 12 byte fields, 0o77777777777, is
\* beyond the integers of the model: no value of the model exceeds it.
encodeOctal(length, value) ==
  IF length <= 8 /\ value > 2097151
  THEN TrimNul(<<128>> \o Base256(value, length - 1))
  ELSE IF value < 0
  THEN TrimNul(<<255>> \o NegBytes(0 - value, length - 1, FALSE))
  ELSE IF value # 0
  THEN LET octal == DigitsOf(value, 8)
           pad == length - Len(octal) - 2
           out == IF pad >= 0 THEN Repeat(48, pad) \o octal \o <<32>> ELSE octal
       IN encodeString(length, out)
  ELSE <<>>

\* an encodeChecksum that leaves out the 256 of the blank chksum field
encodeChecksum_NoInitial(bytes) == encodeOctal(8, SumFields(bytes, 1))

\* encodeChecksum(bytes): the chksum field for the other fields of a block
encodeChecksum(bytes) == encodeOctal(8, CHECKSUM_INITIAL + SumFields(bytes, 1))

\* String.prototype.lastIndexOf('/', fromIndex); a negative fromIndex is 0
LastSlash(path, fromIndex) ==
  LET hits == { i \in 0..Min(Max(fromIndex, 0), Len(path) - 1) : path[i + 1] = SLASH }
  IN IF hits = {} THEN 0 - 1 ELSE CHOOSE i \in hits : \A j \in hits : j <= i

\* the loop of indexOfPrefixEnd; -2 stands for the loop that never ends
\* (the slash at index 0 is found again and again)
RECURSIVE PrefixEndLoop(_, _)
PrefixEndLoop(path, idx0) ==
  LET idx == LastSlash(path, idx0 - 1)
  IN IF idx > -1
     THEN IF idx < MAX_PREFIX_LEN /\ Len(path) - idx - 1 < MAX_NAME_LEN THEN idx
          ELSE IF idx = 0 THEN 0 - 2
          ELSE PrefixEndLoop(path, idx)
     ELSE 0 - 1

\* 255 is the sum of the widths of prefix and name
indexOfPrefixEnd(path) ==
  IF Len(path) <= MAX_NAME_LEN + MAX_PREFIX_LEN
  THEN PrefixEndLoop(path, Len(path) - 1)
  ELSE 0 - 1

\* mode & 61440 (S_IFMT) selects the type
modeToType(mode) ==
  LET fmt == ((mode \div 4096) % 16) * 4096
  IN IF fmt = 24576 THEN BLOCK_DEV
     ELSE IF fmt = 8192 THEN CHAR_DEV
     ELSE IF fmt = 16384 THEN DIRECTORY
     ELSE IF fmt = 4096 THEN FIFO
     ELSE IF fmt = 40960 THEN SYMLINK
     ELSE FILE

\* the defaults encodeBase writes into the header it is given
encodeDefaults(header, now) ==
  LET typeflag == IF header.typeflag = 0 THEN modeToType(header.mode) ELSE header.typeflag
      mode == IF header.mode = 0
              THEN (IF typeflag = DIRECTORY THEN 493 ELSE 420)
              ELSE header.mode
  IN [header EXCEPT !.typeflag = typeflag,
                    !.mode = mode,
                    !.mtime = IF header.mtime = 0 THEN now ELSE header.mtime]

\* encodeHeader(header): the block of a header; now is the clock's second
encodeHeader(header0, now) ==
  LET header == encodeDefaults(header0, now)
      idx == IF header.paxName = <<>> /\ header.longName = <<>>
                /\ Len(header.name) > MAX_NAME_LEN
             THEN indexOfPrefixEnd(header.name) ELSE 0 - 1
      name == IF idx > -1 THEN Drop(header.name, idx + 1) ELSE header.name
      fields ==
        << encodeString(MAX_NAME_LEN, name),
           encodeOctal(8, header.mode % 4096),
           encodeOctal(8, header.uid),
           encodeOctal(8, header.gid),
           encodeOctal(12, header.size),
           encodeOctal(12, header.mtime),
           <<>>,
           IF header.typeflag = 0 THEN <<>> ELSE <<header.typeflag>>,
           encodeString(MAX_NAME_LEN, header.linkname),
           MAGIC,
           VERSION,
           encodeString(32, header.uname),
           encodeString(32, header.gname),
           encodeOctal(8, header.devmajor),
           encodeOctal(8, header.devminor),
           encodeString(MAX_PREFIX_LEN, header.prefix) >>
  IN [fields EXCEPT ![7] = encodeChecksum(fields)]

\* encodePaxEntry(key, value) of encodePax
encodePaxEntry(key, value) ==
  LET line == <<32>> \o key \o <<61>> \o value \o <<10>>
      prefix == DigitsOf(Len(line), 10)
      length == Len(line) + Len(prefix)
  IN DigitsOf(IF Len(DigitsOf(length, 10)) > Len(prefix) THEN length + 1 ELSE length, 10)
       \o line

\* encodePax(header): the payload of the extended header, <<>> for null
encodePax(header) ==
  (IF header.paxName # <<>> THEN encodePaxEntry(KeyPath, header.paxName) ELSE <<>>)
    \o (IF header.paxLinkName # <<>>
        THEN encodePaxEntry(KeyLinkpath, header.paxLinkName) ELSE <<>>)

\* "PaxHeader/", scaled with the name fields
PaxHeaderDir == <<80, 47>>

paxName(name) ==
  LET idx == LastSlash(name, Len(name) - 1)
      basename == IF idx > -1 THEN Drop(name, idx) ELSE name
  IN PaxHeaderDir \o Drop(basename, Max(Len(basename) - (MAX_NAME_LEN - 1), 0))

\* payload bytes as cells: a NUL byte is the cell <<>>
Cells(bytes) == [i \in 1..Len(bytes) |-> IF bytes[i] = 0 THEN <<>> ELSE <<bytes[i]>>]
ZeroCells(n) == [i \in 1..n |-> <<>>]

\* the steps of tar() on the header of an entry, each on the header the
\* step before has left: initTarHeader(entry) with the entry's lastModified,
TarHeaderInit(entry) ==
  With(initTarHeader(Some([EmptyHeader EXCEPT
         !.name = entry.name, !.mode = entry.mode, !.uid = entry.uid,
         !.gid = entry.gid, !.size = entry.size, !.mtime = entry.mtime,
         !.typeflag = entry.typeflag, !.linkname = entry.linkname,
         !.uname = entry.uname, !.gname = entry.gname,
         !.devmajor = entry.devmajor, !.devminor = entry.devminor])),
       LAMBDA header :
         IF entry.lastModified # 0 /\ header.mtime = 0
         THEN [header EXCEPT !.mtime = entry.lastModified \div 1000] ELSE header)

\* the slash of a directory and the size of a symbolic link,
TarHeaderType(header) ==
  IF header.typeflag = DIRECTORY
       /\ (header.name = <<>> \/ header.name[Len(header.name)] # SLASH)
  THEN [header EXCEPT !.name = @ \o <<SLASH>>]
  ELSE IF header.typeflag = SYMLINK THEN [header EXCEPT !.size = 0]
  ELSE header

\* a name longer than the name field, split at a slash or moved to PAX,
TarHeaderName(header) ==
  IF Len(header.name) > MAX_NAME_LEN
  THEN With(indexOfPrefixEnd(header.name), LAMBDA idx :
         IF idx > -1
         THEN [header EXCEPT !.prefix = Take(header.name, idx),
                             !.name = Drop(header.name, idx + 1)]
         ELSE [header EXCEPT !.paxName = header.name, !.name = paxName(header.name)])
  ELSE header

\* and a link name longer than the name field, moved to PAX
TarHeaderLink(header) ==
  IF Len(header.linkname) > MAX_NAME_LEN
  THEN [header EXCEPT !.paxLinkName = header.linkname, !.linkname = paxName(header.name)]
  ELSE header

\* what tar() yields for one entry: the sequence of its chunks.  An entry
\* is [name, typeflag, size, mode, mtime, uid, gid, linkname, uname, gname,
\* devmajor, devminor, lastModified, content], content being the chunks of
\* its stream.
tarEntry(entry, now) ==
  With(TarHeaderLink(TarHeaderName(TarHeaderType(TarHeaderInit(entry)))), LAMBDA header :
    With(encodePax(header), LAMBDA pax :
      (IF pax # <<>>
       THEN <<encodeHeader([initTarHeader(Null) EXCEPT !.typeflag = PAX, !.size = Len(pax)],
                           now),
              Cells(pax)>>
              \o (IF blockPad(Len(pax)) # 0 THEN <<ZeroCells(blockPad(Len(pax)))>> ELSE <<>>)
       ELSE <<>>)
        \o <<encodeHeader(header, now)>>
        \o (IF header.size # 0 THEN entry.content ELSE <<>>)
        \o (IF blockPad(entry.size) # 0 THEN <<ZeroCells(blockPad(entry.size))>> ELSE <<>>)))

\* tar(entries): every chunk the generator yields, in order
RECURSIVE tarChunks(_, _)
tarChunks(entries, now) ==
  IF entries = <<>> THEN <<ZeroCells(BLOCK_SIZE * 2)>>
  ELSE tarEntry(Head(entries), now) \o tarChunks(Tail(entries), now)

----------------------------------------------------------------------------
(* Harness: untar over a chunked archive, with a consumer that may read,   *)
(* cancel, release or ignore the stream of the entry last yielded.         *)

TarMaxEntries == 2   \* most members of an archive

\* the second the encoder's clock shows
Clocks == {9}

\* n payload bytes, none of them NUL
Payload(n, base) == [i \in 1..n |-> <<base + i>>]

ChunkOf(cells) == IF cells = <<>> THEN <<>> ELSE <<cells>>

\* a TarFile / TarChunk handed to tar(): its stream delivers size bytes
Member(name, typeflag, size, mode, mtime, linkname) ==
  [ name |-> name, typeflag |-> typeflag, size |-> size, mode |-> mode,
    mtime |-> mtime, uid |-> 0, gid |-> 0, linkname |-> linkname,
    uname |-> <<>>, gname |-> <<>>, devmajor |-> 0, devminor |-> 0,
    lastModified |-> 1000 * mtime,
    content |-> ChunkOf(Payload(size, 10 * size)) ]

\* what an archive is made of: a member written by tar() ("tar"), or a
\* member as other writers store it: with its size in a PAX record and
\* headerSize in the header ("paxsize"), or of a type untar does not emit
\* ("special")
Item(form, member, headerSize) ==
  [form |-> form, member |-> member, headerSize |-> headerSize]

NameA == <<97>>
NameSplit == <<97, 97, 47, 97, 97, 97, 97>>
NameLong == <<97, 97, 97, 97, 97, 97>>
NameUstar == MAGIC

TarItems ==
  { Item("tar", Member(NameSplit, FILE, 16, 0, 5, <<>>), 0),
    Item("tar", Member(NameLong, FILE, 17, 493, 5, <<>>), 0),
    Item("tar", Member(NameUstar, FILE, 2, 493, 5, <<>>), 0),
    Item("paxsize", Member(NameA, FILE, 7, 420, 5, <<>>), 0),
    Item("special", Member(NameA, CHAR_DEV, 2, 420, 5, <<>>), 0) }

HeaderOf(member) ==
  [EmptyHeader EXCEPT !.name = member.name, !.typeflag = member.typeflag,
                      !.size = member.size, !.mode = member.mode,
                      !.mtime = member.mtime, !.linkname = member.linkname]

Padded(cells) == cells \o ZeroCells(blockPad(Len(cells)))

\* the chunks of one item on the wire
ItemChunks(item, now) ==
  LET m == item.member
      body == m.content \o ChunkOf(ZeroCells(blockPad(m.size)))
  IN IF item.form = "tar" THEN tarEntry(m, now)
     ELSE IF item.form = "paxsize"
     THEN LET pax == encodePaxEntry(KeySize, DigitsOf(m.size, 10))
          IN << encodeHeader([EmptyHeader EXCEPT !.typeflag = PAX, !.size = Len(pax)], now),
                Padded(Cells(pax)),
                encodeHeader([HeaderOf(m) EXCEPT !.size = item.headerSize], now) >>
               \o body
     ELSE <<encodeHeader(HeaderOf(m), now)>> \o body

RECURSIVE ArchiveChunks(_, _)
ArchiveChunks(items, now) ==
  IF items = <<>> THEN <<ZeroCells(BLOCK_SIZE * 2)>>
  ELSE ItemChunks(Head(items), now) \o ArchiveChunks(Tail(items), now)

TarArchives == UNION { [1..n -> TarItems] : n \in 0..TarMaxEntries }

\* the ways the source splits the stream: in the chunks the writer yielded
\* ("written"), in one chunk ("one"), in chunks of alternating sizes a, b
TarSplit(how, a, b) == [how |-> how, a |-> a, b |-> b]

TarSplits ==
  { TarSplit("written", 0, 0), TarSplit("one", 0, 0),
    TarSplit("by", 1, 1), TarSplit("by", 5, 3) }

TarChunkings(split, written, stream) ==
  IF split.how = "written" THEN written
  ELSE IF split.how = "one" THEN ChunkOf(stream)
  ELSE ChunkBy(stream, split.a, split.b)

\* the consumer reads the stream of the entry last yielded to its end
RECURSIVE ReadAll(_, _)
ReadAll(p, r) ==
  IF p.pc = "yielded" /\ p.stream.state = "readable"
  THEN With(streamRead(p, r), LAMBDA s : ReadAll(s.p, s.r))
  ELSE [p |-> p, r |-> r]

\* the run in which the consumer reads every payload to its end
RECURSIVE FullRun(_, _)
FullRun(p, r) ==
  IF p.pc \in {"done", "failed"} THEN p
  ELSE With(untarNext(p, r), LAMBDA n :
         With(ReadAll(n.p, n.r), LAMBDA a : FullRun(a.p, a.r)))

\* cells missing at the end of the stream: none, or enough to cut into the
\* last member
TarCuts == {0, BLOCK_SIZE * 2 + 2}

InitUntar ==
  /\ \E items \in TarArchives, now \in Clocks, cut \in TarCuts :
       \E written \in { ArchiveChunks(items, now) } :
         \E stream \in { Take(Flatten(written), Max(Len(Flatten(written)) - cut, 0)) } :
           \E split \in { s \in TarSplits : cut = 0 \/ s.how # "written" } :
             /\ orig = stream
             /\ reader = NewReaderB(TarChunkings(split, written, stream), BLOCK_SIZE)
             /\ input = [items |-> items, now |-> now, cut |-> cut, split |-> split]
  /\ pipe = [run |-> [NewUntar EXCEPT !.pc = "new"], full |-> TRUE,
             fullRun |-> NewUntar, wholeRun |-> NewUntar]
  /\ delivered = <<>>
  /\ last = Call("init", 0, Null, 0, 0, <<>>)

\* the consumer calls untar(stream).  For later comparison the outcome of
\* two other runs over the same archive is noted: the run over the same
\* chunks and the run over the archive in one chunk, every payload being
\* read to its end in both.
UntarCall ==
  /\ pipe.run.pc = "new"
  /\ \E runs \in { [chunks \in {"same", "one"} |->
                     FullRun(NewUntar, IF chunks = "same" THEN reader
                                       ELSE NewReaderB(ChunkOf(orig), BLOCK_SIZE))] } :
       pipe' = [pipe EXCEPT !.run.pc = "start",
                            !.fullRun = runs["same"],
                            !.wholeRun = runs["one"]]
  /\ last' = Call("untar", 0, Null, 0, 0, <<>>)
  /\ UNCHANGED <<reader, orig, delivered, input>>

TarStep(op, res, full) ==
  /\ reader' = res.r
  /\ pipe' = [pipe EXCEPT !.run = res.p, !.full = full]
  /\ last' = Call(op, 0, Null, 0, 0, <<>>)
  /\ UNCHANGED <<orig, delivered, input>>

\* the consumer asks the generator for the next entry
UntarNext ==
  /\ pipe.run.pc \in {"start", "yielded"}
  /\ TarStep("next", untarNext(pipe.run, reader),
             pipe.full /\ (pipe.run.pc = "yielded"
                             => \/ pipe.run.entries[Len(pipe.run.entries)].complete
                                \/ pipe.run.stream.state = "errored"))

\* the consumer reads from the stream of the entry last yielded
StreamRead ==
  /\ pipe.run.pc = "yielded"
  /\ pipe.run.stream.state = "readable"
  /\ TarStep("read", streamRead(pipe.run, reader), pipe.full)

\* the consumer cancels the stream of the entry last yielded
StreamCancel ==
  /\ pipe.run.pc = "yielded"
  /\ pipe.run.stream.state = "readable"
  /\ TarStep("cancel", streamCancel(pipe.run, reader), FALSE)

\* the consumer releases its lock on the stream
StreamRelease ==
  /\ pipe.run.pc = "yielded"
  /\ pipe.run.stream.locked
  /\ TarStep("release", [p |-> [pipe.run EXCEPT !.stream.locked = FALSE], r |-> reader],
             pipe.full)

NextUntar == UntarCall \/ UntarNext \/ StreamRead \/ StreamCancel \/ StreamRelease

SpecUntar == InitUntar /\ [][NextUntar]_vars

----------------------------------------------------------------------------
(* Properties of untar *)

\* what the consumer sees of an entry: name, type and size
Seen(e) == <<e.name, e.typeflag, e.size>>
SeenAll(entries) == [k \in 1..Len(entries) |-> Seen(entries[k])]

\* the metadata of an entry
Meta(e) ==
  [ name |-> e.name, typeflag |-> e.typeflag, size |-> e.size, mode |-> e.mode,
    uid |-> e.uid, gid |-> e.gid, mtime |-> e.mtime, linkname |-> e.linkname,
    uname |-> e.uname, gname |-> e.gname ]
MetaAll(entries) == [k \in 1..Len(entries) |-> Meta(entries[k])]

Finished(p) == p.pc \in {"done", "failed"}

\* C1 (untar skip-and-advance): over a well-formed archive, however the
\* consumer treats each payload before asking for the next entry (reads it
\* to its end, reads part of it, cancels it, ignores it), the entries
\* yielded so far are, by name, type and size, the first entries of the run
\* that reads every payload to its end; when the run has ended it has
\* yielded all of them and ended the same way; and a payload read to its
\* end is the size bytes of the archive that follow the entry's header.
UntarSkipAndAdvance ==
  (pipe.run.pc # "new" /\ input.cut = 0) =>
    /\ IsPrefix(SeenAll(pipe.run.entries), SeenAll(pipe.fullRun.entries))
    /\ Finished(pipe.run) =>
         /\ pipe.run.pc = pipe.fullRun.pc
         /\ Len(pipe.run.entries) = Len(pipe.fullRun.entries)
    /\ \A k \in 1..Len(pipe.run.entries) :
         LET e == pipe.run.entries[k]
         IN e.complete => e.data = SubSeq(orig, e.start + 1, e.start + e.size)

\* a run that ended after the consumer ignored the first entry, read part
\* of the second and then asked for the next, and read the third to its end
UntarSkipAndAdvanceWitness ==
  /\ pipe.run.pc = "yielded"
  /\ last.op = "next"
  /\ input.cut = 0
  /\ Len(pipe.run.entries) = 2
  /\ pipe.run.entries[1].how = "part"
  /\ pipe.run.entries[1].size > BLOCK_SIZE
  /\ pipe.run.entries[1].finish # 0 - 1
  /\ pipe.run.entries[2].size > 0

\* C5 (chunking independence of untar): whatever the chunks the source
\* splits the stream into (a stream that may end early included), a run in
\* which every payload is read to its end yields the entries of the run over
\* the stream in one chunk, with the same metadata and payload bytes, and
\* ends the same way.
UntarChunkingIndependent ==
  (pipe.run.pc # "new" /\ pipe.full) =>
    /\ IsPrefix(MetaAll(pipe.run.entries), MetaAll(pipe.wholeRun.entries))
    /\ \A k \in 1..Len(pipe.run.entries) :
         pipe.run.entries[k].complete =>
           pipe.run.entries[k].data = pipe.wholeRun.entries[k].data
    /\ Finished(pipe.run) =>
         /\ pipe.run.pc = pipe.wholeRun.pc
         /\ pipe.run.err = pipe.wholeRun.err
         /\ Len(pipe.run.entries) = Len(pipe.wholeRun.entries)

\* a run over one-cell chunks that read two payloads to their end, the
\* first longer than a block
UntarChunkingIndependentWitness ==
  /\ pipe.run.pc = "done"
  /\ pipe.full
  /\ input.split = TarSplit("by", 1, 1)
  /\ Len(pipe.run.entries) = 2
  /\ pipe.run.entries[1].size > BLOCK_SIZE
  /\ pipe.run.entries[1].complete
  /\ pipe.run.entries[2].size > 0
  /\ pipe.run.entries[2].complete

\* the size claimed for an entry: paxSize ?? size
ClaimedSize(e) == IF IsNull(e.paxSize) THEN e.headerSize ELSE Val(e.paxSize)

\* the block that ends where the payload of e starts is a header block of
\* a type untar emits
AfterHeader(e) ==
  /\ e.start >= BLOCK_SIZE
  /\ LET block == SubSeq(orig, e.start - BLOCK_SIZE + 1, e.start)
     IN /\ checkMagic(block)
        /\ IsFileType(getTypeFlag(block)) \/ IsChunkType(getTypeFlag(block))

\* C6 (entry ordering, untar): over a well-formed archive every entry is
\* yielded right after its header block, later entries after later
\* headers, and when entry k+1 is yielded the reader has consumed the
\* payload of entry k and its padding.
UntarEntryOrdering ==
  (pipe.run.pc # "new" /\ input.cut = 0) =>
    \A k \in 1..Len(pipe.run.entries) :
      LET e == pipe.run.entries[k]
      IN /\ AfterHeader(e)
         /\ k > 1 =>
              LET d == pipe.run.entries[k - 1]
              IN e.start >= d.start + ClaimedSize(d) + blockPad(ClaimedSize(d))
                             + BLOCK_SIZE

\* C7 (tar payload framing): between the header block of an entry and the
\* next header block that is read, the reader consumes s + pad(s) cells,
\* s being the claimed size paxSize ?? size, however the payload was
\* treated.
UntarPayloadFraming ==
  (pipe.run.pc # "new" /\ input.cut = 0) =>
    \A k \in 1..Len(pipe.run.entries) :
      LET e == pipe.run.entries[k]
      IN e.finish # -1 =>
           e.finish - e.start = ClaimedSize(e) + blockPad(ClaimedSize(e))

----------------------------------------------------------------------------
(* Harness: tar() writes a sequence of entries, untar reads what it wrote, *)
(* and the consumer reads every payload to its end.                        *)

TarRoundMax == 2   \* most entries handed to tar()

\* a TarFile / TarChunk whose stream delivers size bytes, with the time of
\* its last modification in milliseconds
Entry(name, typeflag, size, mode, mtime, lastModified) ==
  [ Member(name, typeflag, size, mode, mtime, <<>>) EXCEPT !.lastModified = lastModified ]

RoundNames == { NameA, NameSplit, NameLong }

RoundEntries ==
  { Entry(name, FILE, 2, 493, 5, 0) : name \in RoundNames }
    \cup { Entry(name, FILE, 17, 0, 5, 0) : name \in RoundNames }
    \cup { Entry(name, DIRECTORY, 0, 0, 5, 0) : name \in RoundNames }
    \cup { Entry(NameA, FILE, 0, 420, 0, 5500) }

InitTar ==
  /\ \E entries \in UNION { [1..n -> RoundEntries] : n \in 0..TarRoundMax }, now \in Clocks :
       input = [entries |-> entries, now |-> now]
  /\ pipe = [run |-> [NewUntar EXCEPT !.pc = "new"], written |-> <<>>, k |-> 0]
  /\ orig = <<>>
  /\ reader = NewReaderB(<<>>, BLOCK_SIZE)
  /\ delivered = <<>>
  /\ last = Call("init", 0, Null, 0, 0, <<>>)

\* tar() takes the next entry and yields its chunks
TarYield ==
  /\ pipe.run.pc = "new"
  /\ pipe.k < Len(input.entries)
  /\ pipe' = [pipe EXCEPT !.k = @ + 1,
                          !.written = @ \o tarEntry(input.entries[pipe.k + 1], input.now)]
  /\ last' = Call("tar", 0, Null, 0, 0, <<>>)
  /\ UNCHANGED <<reader, orig, delivered, input>>

\* tar() yields the end of the archive; untar is given what was written
TarEnd ==
  /\ pipe.run.pc = "new"
  /\ pipe.k = Len(input.entries)
  /\ \E written \in { pipe.written \o <<ZeroCells(BLOCK_SIZE * 2)>> } :
       /\ pipe' = [pipe EXCEPT !.written = written, !.run.pc = "start"]
       /\ orig' = Flatten(written)
       /\ reader' = NewReaderB(written, BLOCK_SIZE)
  /\ last' = Call("untar", 0, Null, 0, 0, <<>>)
  /\ UNCHANGED <<delivered, input>>

RoundStep(op, res) ==
  /\ reader' = res.r
  /\ pipe' = [pipe EXCEPT !.run = res.p]
  /\ last' = Call(op, 0, Null, 0, 0, <<>>)
  /\ UNCHANGED <<orig, delivered, input>>

\* the consumer asks for the next entry once it has read the last one
RoundNext ==
  /\ \/ pipe.run.pc = "start"
     \/ pipe.run.pc = "yielded" /\ pipe.run.stream.state # "readable"
  /\ RoundStep("next", untarNext(pipe.run, reader))

\* the consumer reads from the stream of the entry last yielded
RoundRead ==
  /\ pipe.run.pc = "yielded"
  /\ pipe.run.stream.state = "readable"
  /\ RoundStep("read", streamRead(pipe.run, reader))

NextTar == TarYield \/ TarEnd \/ RoundNext \/ RoundRead

SpecTar == InitTar /\ [][NextTar]_vars

\* what the round trip is to give back for an entry: the default mode
\* filled in, a directory's name ending in a slash, the time in seconds
RoundExpected(entry) ==
  [ name |-> IF entry.typeflag = DIRECTORY /\ entry.name[Len(entry.name)] # SLASH
             THEN entry.name \o <<SLASH>> ELSE entry.name,
    typeflag |-> entry.typeflag,
    size |-> entry.size,
    mode |-> IF entry.mode # 0 THEN entry.mode
             ELSE IF entry.typeflag = DIRECTORY THEN 493 ELSE 420,
    mtime |-> IF entry.mtime # 0 THEN entry.mtime ELSE entry.lastModified \div 1000,
    data |-> Flatten(entry.content) ]

RoundGot(e) ==
  [ name |-> e.name, typeflag |-> e.typeflag, size |-> e.size, mode |-> e.mode,
    mtime |-> e.mtime, data |-> e.data ]

\* C8 (tar round trip): untar(tar(E)) ends without an error and yields,
\* entry by entry, the name, type, size, mode, mtime and payload of E, up
\* to the default mode and the slash of a directory; for short names, names
\* split into prefix and name, and names that need a PAX header.
TarRoundTrip ==
  /\ pipe.run.pc # "failed"
  /\ pipe.run.pc = "done" =>
       /\ Len(pipe.run.entries) = Len(input.entries)
       /\ \A k \in 1..Len(input.entries) :
            RoundGot(pipe.run.entries[k]) = RoundExpected(input.entries[k])

----------------------------------------------------------------------------
(* Multipart name codec (multipartEncoding).  Strings are sequences of     *)
(* character codes.                                                        *)

\* the value of c as a digit: 0-9, a-z, A-Z; 99 where c is no digit
DigitVal(c) ==
  IF c \in 48..57 THEN c - 48
  ELSE IF c \in 97..122 THEN c - 87
  ELSE IF c \in 65..90 THEN c - 55
  ELSE 99

IsHex(c) == DigitVal(c) < 16

\* parseInt(hex, 16) of a string of hexadecimal digits
RECURSIVE ParseHex(_, _)
ParseHex(hex, acc) ==
  IF hex = <<>> THEN acc ELSE ParseHex(Tail(hex), acc * 16 + DigitVal(Head(hex)))

\* Number.prototype.toString(16).toUpperCase()
RECURSIVE UpperHexOf(_)
UpperHexOf(n) ==
  LET d == n % 16
      c == IF d < 10 THEN 48 + d ELSE 55 + d
  IN IF n < 16 THEN <<c>> ELSE UpperHexOf(n \div 16) \o <<c>>

pencode(c) ==
  IF c = 92 THEN <<92, 92>>             \* '\\' -> '\\\\'
  ELSE IF c = 34 THEN <<37, 50, 50>>    \* '"' -> '%22'
  ELSE IF c = 10 THEN <<37, 48, 65>>    \* '\n' -> '%0A'
  ELSE <<37>> \o UpperHexOf(c)

\* ENCODE_NAME_CHARS = /["\n\\]/g
EncodeNameChar(c) == c \in {34, 10, 92}

encodeName(inputName) ==
  Flatten([i \in 1..Len(inputName) |->
             IF EncodeNameChar(inputName[i]) THEN pencode(inputName[i])
             ELSE <<inputName[i]>>])

\* the n characters of s from the 1-based position from on are hex digits
AllHex(s, from, n) ==
  /\ from + n - 1 <= Len(s)
  /\ \A k \in from..(from + n - 1) : IsHex(s[k])

\* the line terminators, which `.` does not match
IsLineTerminator(c) == c \in {10, 13, 8232, 8233}

\* DECODE_ESCAPE_CHARS = /\\(?:u[0-9a-f]{4}|x[0-9a-f]{2}|.)/gi: the length
\* of its match at the 1-based position i of s, 0 where it does not match
EscapeMatch(s, i) ==
  IF s[i] # 92 \/ i = Len(s) THEN 0
  ELSE IF s[i + 1] \in {117, 85} /\ AllHex(s, i + 2, 4) THEN 6
  ELSE IF s[i + 1] \in {120, 88} /\ AllHex(s, i + 2, 2) THEN 4
  ELSE IF ~IsLineTerminator(s[i + 1]) THEN 2
  ELSE 0

\* DECODE_PENCODED = /%[0-9a-f]{2}/gi
PencodedMatch(s, i) == IF s[i] = 37 /\ AllHex(s, i + 1, 2) THEN 3 ELSE 0

decodeBackslashEscape(seq) ==
  IF seq[1] # 92 THEN seq
  ELSE IF seq[2] \in {117, 120}                       \* 'u', 'x'
  THEN LET hex == Drop(seq, 2)
       IN IF Len(hex) > 1 THEN <<ParseHex(hex, 0)>> ELSE seq
  ELSE IF seq[2] = 98 THEN <<8>>                      \* 'b'
  ELSE IF seq[2] = 102 THEN <<12>>                    \* 'f'
  ELSE IF seq[2] = 110 THEN <<10>>                    \* 'n'
  ELSE IF seq[2] = 114 THEN <<13>>                    \* 'r'
  ELSE IF seq[2] = 116 THEN <<9>>                     \* 't'
  ELSE IF Len(seq) > 2 THEN <<seq[3]>> ELSE seq       \* seq[2] != null ? seq[2] : seq

pdecode(c) == <<ParseHex(IF c[1] = 37 THEN Tail(c) ELSE c, 0)>>

\* encoded.replace(DECODE_ESCAPE_CHARS, decodeBackslashEscape) from i on
RECURSIVE ReplaceEscapes(_, _)
ReplaceEscapes(s, i) ==
  IF i > Len(s) THEN <<>>
  ELSE With(EscapeMatch(s, i), LAMBDA n :
         IF n = 0 THEN <<s[i]>> \o ReplaceEscapes(s, i + 1)
         ELSE decodeBackslashEscape(SubSeq(s, i, i + n - 1)) \o ReplaceEscapes(s, i + n))

\* .replace(DECODE_PENCODED, pdecode) from i on
RECURSIVE ReplacePencoded(_, _)
ReplacePencoded(s, i) ==
  IF i > Len(s) THEN <<>>
  ELSE With(PencodedMatch(s, i), LAMBDA n :
         IF n = 0 THEN <<s[i]>> \o ReplacePencoded(s, i + 1)
         ELSE pdecode(SubSeq(s, i, i + n - 1)) \o ReplacePencoded(s, i + n))

decodeName(encoded) == ReplacePencoded(ReplaceEscapes(encoded, 1), 1)

----------------------------------------------------------------------------
(* Multipart encoder (multipartOutput) *)

CRLF == <<13, 10>>
BOUNDARY_HYPHEN_CHARS == <<45, 45>>
\* '----formdata-multitars'
BOUNDARY_ID ==
  <<45, 45, 45, 45, 102, 111, 114, 109, 100, 97, 116, 97, 45,
    109, 117, 108, 116, 105, 116, 97, 114, 115>>

FORM_FOOTER ==
  BOUNDARY_HYPHEN_CHARS \o BOUNDARY_ID \o BOUNDARY_HYPHEN_CHARS \o CRLF \o CRLF

\* 'Content-Disposition: form-data; name="'
DispositionText ==
  <<67, 111, 110, 116, 101, 110, 116, 45, 68, 105, 115, 112, 111, 115, 105, 116,
    105, 111, 110, 58, 32, 102, 111, 114, 109, 45, 100, 97, 116, 97, 59, 32,
    110, 97, 109, 101, 61, 34>>
\* '; filename="'
FilenameText == <<59, 32, 102, 105, 108, 101, 110, 97, 109, 101, 61, 34>>
\* 'Content-Type: '
ContentTypeText == <<67, 111, 110, 116, 101, 110, 116, 45, 84, 121, 112, 101, 58, 32>>
\* 'Content-Length: '
ContentLengthText ==
  <<67, 111, 110, 116, 101, 110, 116, 45, 76, 101, 110, 103, 116, 104, 58, 32>>
Quote == <<34>>

\* a form value: a Uint8Array (blob FALSE) or a Blob; fileName is Some(name)
\* for a File, type the Blob's type
FormValue(blob, fileName, type, bytes) ==
  [blob |-> blob, fileName |-> fileName, type |-> type, bytes |-> bytes]

isBlob(value) == value.blob

\* makeFormHeader(params, headers): params is [name, filename], filename
\* Null or Some(string); headers is Null or Some([type, length])
makeFormHeader(params, headers) ==
  BOUNDARY_HYPHEN_CHARS \o BOUNDARY_ID \o CRLF
    \o DispositionText \o encodeName(params.name) \o Quote
    \o (IF ~IsNull(params.filename)
        THEN FilenameText \o encodeName(Val(params.filename)) \o Quote ELSE <<>>)
    \o (IF ~IsNull(headers) /\ Val(headers).type # <<>>
        THEN CRLF \o ContentTypeText \o Val(headers).type ELSE <<>>)
    \o (IF ~IsNull(headers) /\ Val(headers).length # 0
        THEN CRLF \o ContentLengthText \o DigitsOf(Val(headers).length, 10) ELSE <<>>)
    \o CRLF
    \o CRLF

\* 'multipart/form-data; boundary=' + BOUNDARY_ID
multipartContentType ==
  <<109, 117, 108, 116, 105, 112, 97, 114, 116, 47, 102, 111, 114, 109, 45, 100,
    97, 116, 97, 59, 32, 98, 111, 117, 110, 100, 97, 114, 121, 61>> \o BOUNDARY_ID

\* the chunks streamMultipart yields for one entry [name, value]; the stream
\* of a Blob yields its bytes in one chunk, none where it is empty
FormEntryChunks(entry) ==
  IF isBlob(entry.value)
  THEN <<makeFormHeader(
           [name |-> entry.name,
            filename |-> IF ~IsNull(entry.value.fileName) THEN entry.value.fileName
                         ELSE Some(entry.name)],
           Some([type |-> entry.value.type, length |-> Len(entry.value.bytes)]))>>
         \o ChunkOf(entry.value.bytes)
         \o <<CRLF>>
  ELSE <<makeFormHeader([name |-> entry.name, filename |-> Null], Null),
         entry.value.bytes,
         CRLF>>

\* the chunks streamMultipart(entries) yields
streamMultipart(entries) ==
  Flatten([k \in 1..Len(entries) |-> FormEntryChunks(entries[k])]) \o <<FORM_FOOTER>>

----------------------------------------------------------------------------
(* Multipart decoder (multipartInput), over the cursor-rewind reader *)

MULTIPART_BLOCK_SIZE == 32
MAX_PREAMBLE_SIZE == 16000
\* the limits of a header line and of a header section (16000 and 32000 in
\* the source), scaled down as the block size is
MAX_HEADER_SIZE == 160
MAX_HEADERS_SIZE == 320

Least(S) == CHOOSE i \in S : \A j \in S : i <= j
Greatest(S) == CHOOSE i \in S : \A j \in S : j <= i

\* the white space String.prototype.trim removes
IsWhiteSpace(c) == c \in {9, 10, 11, 12, 13, 32}

trimStart(s) ==
  LET kept == { i \in 1..Len(s) : ~IsWhiteSpace(s[i]) }
  IN IF kept = {} THEN <<>> ELSE SubSeq(s, Least(kept), Len(s))

trimEnd(s) ==
  LET kept == { i \in 1..Len(s) : ~IsWhiteSpace(s[i]) }
  IN IF kept = {} THEN <<>> ELSE SubSeq(s, 1, Greatest(kept))

trim(s) == trimEnd(trimStart(s))

toLowerCase(s) == [i \in 1..Len(s) |-> IF s[i] \in 65..90 THEN s[i] + 32 ELSE s[i]]

\* the text 'boundary=' of boundaryHeaderRe
BoundaryText == <<98, 111, 117, 110, 100, 97, 114, 121, 61>>

\* the number of characters of s from index from on that [^=";] matches
BoundaryRun(s, from) ==
  Least({ e \in from..Len(s) : e = Len(s) \/ s[e + 1] \in {61, 34, 59} }) - from

\* contentType.match(boundaryHeaderRe)?.[1] for
\* boundaryHeaderRe = /boundary="?([^=";]+)"?/i: Null where nothing matches
boundaryHeaderRe(contentType) ==
  LET n == Len(BoundaryText)
      \* where the captured group starts for a match that starts at index i
      GroupAt(i) == IF i + n < Len(contentType) /\ contentType[i + n + 1] = 34
                    THEN i + n + 1 ELSE i + n
      hits == { i \in 0..(Len(contentType) - n) :
                  /\ toLowerCase(SubSeq(contentType, i + 1, i + n)) = BoundaryText
                  /\ BoundaryRun(contentType, GroupAt(i)) > 0 }
  IN IF hits = {} THEN Null
     ELSE Some(SubSeq(contentType, GroupAt(Least(hits)) + 1,
                      GroupAt(Least(hits)) + BoundaryRun(contentType, GroupAt(Least(hits)))))

convertToBoundaryBytes(contentType) ==
  LET boundaryHeader == boundaryHeaderRe(contentType)
      boundaryRaw == <<45, 45>> \o (IF IsNull(boundaryHeader) THEN <<45>>
                                    ELSE Val(boundaryHeader))
  IN [raw |-> boundaryRaw, trailer |-> CRLF \o boundaryRaw]

\* parseContentLength(contentLength); contentLength is Null or Some(string).
\* The lengths of this model stay far below 2^53.
parseContentLength(contentLength) ==
  IF ~IsNull(contentLength) /\ Val(contentLength) # <<>>
  THEN With(parseInt(Val(contentLength), 10), LAMBDA size :
         IF ~IsNull(size) /\ Val(size) > 0 THEN size ELSE Null)
  ELSE Null

\* 'form-data', 'name', 'filename'
FormDataText == <<102, 111, 114, 109, 45, 100, 97, 116, 97>>
NameKey == <<110, 97, 109, 101>>
FilenameKey == <<102, 105, 108, 101, 110, 97, 109, 101>>

\* one entry of the do-while loop of parseContentDisposition
DispositionEntry(entry, disposition) ==
  LET equalIdx == ByteIndexOf(entry, 61, 0)
      key == trim(Slice(entry, 0, equalIdx))
      value == trim(Slice(entry, equalIdx + 1, Len(entry)))
  IN IF equalIdx > -1 /\ key \in {NameKey, FilenameKey}
     THEN [disposition EXCEPT ![IF key = NameKey THEN "name" ELSE "filename"] =
             Some(decodeName(IF value # <<>> /\ value[1] = 34 /\ value[Len(value)] = 34
                             THEN Slice(value, 1, Len(value) - 1)
                             ELSE value))]
     ELSE disposition

RECURSIVE DispositionLoop(_, _, _)
DispositionLoop(contentDisposition, startIdx, disposition) ==
  With(ByteIndexOf(contentDisposition, 59, startIdx), LAMBDA endIdx :
    With(DispositionEntry(Slice(contentDisposition, startIdx,
                                IF endIdx > -1 THEN endIdx ELSE Len(contentDisposition)),
                          disposition),
         LAMBDA next :
           IF endIdx > 0 THEN DispositionLoop(contentDisposition, endIdx + 1, next)
           ELSE next))

\* parseContentDisposition(contentDisposition): Null or Some([name, filename])
parseContentDisposition(contentDisposition) ==
  IF IsNull(contentDisposition) \/ Val(contentDisposition) = <<>> THEN Null
  ELSE LET startIdx == ByteIndexOf(Val(contentDisposition), 59, 0)
       IN IF startIdx < 0
             \/ trimEnd(Slice(Val(contentDisposition), 0, startIdx)) # FormDataText
          THEN Null
          ELSE Some(DispositionLoop(Val(contentDisposition), startIdx,
                                    [name |-> Null, filename |-> Null]))

\* headers: a sequence of [name, value], one per header name
HeaderGet(headers, headerName) ==
  LET at == { i \in 1..Len(headers) : headers[i].name = headerName }
  IN IF at = {} THEN Null ELSE Some(headers[Least(at)].value)

HeaderSet(headers, headerName, headerValue) ==
  LET at == { i \in 1..Len(headers) : headers[i].name = headerName }
  IN IF at = {} THEN Append(headers, [name |-> headerName, value |-> headerValue])
     ELSE [headers EXCEPT ![Least(at)].value = headerValue]

\* expectPreamble(reader, boundary): [r, err]
RECURSIVE PreambleLoop(_, _, _, _)
PreambleLoop(g, r, boundary, byteLength) ==
  With(readUntilBoundaryB(g, r, boundary.raw), LAMBDA it :
    IF it.kind = "done" THEN [r |-> it.r, err |-> ""]
    ELSE IF it.kind = "throw" THEN [r |-> it.r, err |-> "TypeError"]
    ELSE IF IsNull(it.value)
    THEN [r |-> it.r, err |-> "Invalid Multipart Preamble: Unexpected EOF"]
    ELSE IF byteLength + Len(Val(it.value)) > MAX_PREAMBLE_SIZE
    THEN [r |-> it.r,
          err |-> "Invalid Multipart Preamble: Boundary not found within the first 16kB"]
    ELSE PreambleLoop(it.g, it.r, boundary, byteLength + Len(Val(it.value))))

expectPreamble(r, boundary) == PreambleLoop(NewSearch, r, boundary, 0)

\* expectTrailer(reader, boundary): [r, err]
expectTrailer(r, boundary) ==
  With(pullB(r, Len(boundary.trailer)), LAMBDA pl :
    [r |-> pl.r,
     err |-> IF \E idx \in 0..(Len(boundary.trailer) - 1) :
                  \/ IsNull(pl.out)
                  \/ idx >= Len(Val(pl.out))
                  \/ Val(pl.out)[idx + 1] # boundary.trailer[idx + 1]
             THEN "Invalid Multipart Part: Expected trailing boundary"
             ELSE ""])

\* the for-await loop of decodeHeaders over readUntilBoundary(reader, CRLF):
\* [r, header, closing, err]; closing where the loop returned null at '--'
RECURSIVE HeaderLine(_, _, _, _)
HeaderLine(g, r, byteLength, header) ==
  With(readUntilBoundaryB(g, r, CRLF), LAMBDA it :
    IF it.kind = "done"
    THEN [r |-> it.r, header |-> header, closing |-> FALSE, err |-> ""]
    ELSE IF it.kind = "throw"
    THEN [r |-> it.r, header |-> header, closing |-> FALSE, err |-> "TypeError"]
    ELSE IF IsNull(it.value)
    THEN [r |-> it.r, header |-> header, closing |-> FALSE,
          err |-> "Invalid Multipart Headers: Unexpected EOF"]
    ELSE IF /\ byteLength = 0
            /\ header = <<>>
            /\ Len(Val(it.value)) >= 2
            /\ Val(it.value)[1] = 45
            /\ Val(it.value)[2] = 45
    THEN [r |-> it.r, header |-> header, closing |-> TRUE, err |-> ""]
    ELSE IF Len(header) + Len(Val(it.value)) > MAX_HEADER_SIZE
    THEN [r |-> it.r, header |-> header, closing |-> FALSE,
          err |-> "Invalid Multipart Headers: A header exceeded its maximum length of 16kB"]
    ELSE HeaderLine(it.g, it.r, byteLength, header \o Val(it.value)))

\* what follows the while loop of decodeHeaders
HeadersEnd(r, byteLength, headers) ==
  IF byteLength > MAX_HEADER_SIZE
  THEN [r |-> r, headers |-> Null,
        err |-> "Invalid Multipart Headers: Headers exceeded their maximum length of 32kB"]
  ELSE [r |-> r, headers |-> Some(headers), err |-> ""]

\* headers with the header of one line, of which colonIdx is the first ':'
HeaderAdd(headers, header, colonIdx) ==
  LET headerName == toLowerCase(trim(Slice(header, 0, colonIdx)))
      headerValue == trim(Slice(header, colonIdx + 1, Len(header)))
  IN IF headerValue # <<>> THEN HeaderSet(headers, headerName, headerValue) ELSE headers

\* the while loop of decodeHeaders
RECURSIVE HeadersLoop(_, _, _)
HeadersLoop(r, byteLength, headers) ==
  IF byteLength < MAX_HEADERS_SIZE
  THEN With(HeaderLine(NewSearch, r, byteLength, <<>>), LAMBDA ln :
         IF ln.err # "" THEN [r |-> ln.r, headers |-> Null, err |-> ln.err]
         ELSE IF ln.closing THEN [r |-> ln.r, headers |-> Null, err |-> ""]
         ELSE IF ln.header # <<>>
         THEN With(ByteIndexOf(ln.header, 58, 0), LAMBDA colonIdx :
                IF colonIdx > -1
                THEN HeadersLoop(ln.r, byteLength + Len(ln.header) + Len(CRLF),
                                 HeaderAdd(headers, ln.header, colonIdx))
                ELSE [r |-> ln.r, headers |-> Null,
                      err |-> "Invalid Multipart Headers: Invalid header value missing :"])
         ELSE IF byteLength > 0 THEN HeadersEnd(ln.r, byteLength, headers)
         ELSE HeadersLoop(ln.r, byteLength, headers))
  ELSE HeadersEnd(r, byteLength, headers)

\* decodeHeaders(reader): [r, headers, err]; headers is Null at the closing
\* delimiter
decodeHeaders(r) == HeadersLoop(r, 0, <<>>)

\* 'content-type', 'content-disposition', 'content-length'
ContentTypeKey == <<99, 111, 110, 116, 101, 110, 116, 45, 116, 121, 112, 101>>
ContentDispositionKey ==
  <<99, 111, 110, 116, 101, 110, 116, 45, 100, 105, 115, 112, 111, 115, 105, 116,
    105, 111, 110>>
ContentLengthKey ==
  <<99, 111, 110, 116, 101, 110, 116, 45, 108, 101, 110, 103, 116, 104>>

\* disposition?.filename || disposition?.name, Null where that is falsy
PartName(disposition) ==
  IF IsNull(disposition) THEN Null
  ELSE IF ~IsNull(Val(disposition).filename) /\ Val(Val(disposition).filename) # <<>>
  THEN Val(disposition).filename
  ELSE IF ~IsNull(Val(disposition).name) /\ Val(Val(disposition).name) # <<>>
  THEN Val(disposition).name
  ELSE Null

\* new MultipartPart(stream, name, {type, size, headers}), with what the
\* consumer has read of its payload and where it lies in the body
MultipartPart(name, type, size, headers, start) ==
  LET sized == IF ~IsNull(size)
               THEN HeaderSet(headers, ContentLengthKey, DigitsOf(Val(size), 10))
               ELSE headers
      typed == IF ~IsNull(type) /\ Val(type) # <<>>
               THEN HeaderSet(sized, ContentTypeKey, Val(type)) ELSE sized
  IN [ name |-> name, type |-> type, size |-> size, headers |-> typed,
       data |-> <<>>, complete |-> FALSE, how |-> "none",
       start |-> start, finish |-> 0 - 1 ]

\* the generator of parseMultipart before its first next()
NewMultipart(contentType) ==
  [ pc |-> "start", boundary |-> convertToBoundaryBytes(contentType),
    sized |-> FALSE, remaining |-> 0, reachedEnd |-> TRUE, iterator |-> NewSearch,
    stream |-> [NewStream EXCEPT !.state = "closed"],
    parts |-> <<>>, err |-> "" ]

\* cancel() of a sized part that leaves remaining as it was
sizedCancel_KeepsRemaining(p, r) ==
  With(IF p.remaining > 0 THEN skipB(r, p.remaining) ELSE [r |-> r, out |-> p.remaining],
       LAMBDA sk :
    IF sk.out > 0
    THEN [p |-> p, r |-> sk.r, err |-> "Invalid Multipart Part: Unexpected EOF"]
    ELSE IF ~p.reachedEnd
    THEN With(expectTrailer(sk.r, p.boundary), LAMBDA tr :
           [p |-> [p EXCEPT !.reachedEnd = (tr.err = "")], r |-> tr.r, err |-> tr.err])
    ELSE [p |-> p, r |-> sk.r, err |-> ""])

\* cancel() of a sized part: [p, r, err]
sizedCancel(p, r) ==
  With(IF p.remaining > 0 THEN skipB(r, p.remaining) ELSE [r |-> r, out |-> p.remaining],
       LAMBDA sk :
    IF sk.out > 0
    THEN [p |-> [p EXCEPT !.remaining = sk.out], r |-> sk.r,
          err |-> "Invalid Multipart Part: Unexpected EOF"]
    ELSE IF ~p.reachedEnd
    THEN With(expectTrailer(sk.r, p.boundary), LAMBDA tr :
           [p |-> [p EXCEPT !.remaining = sk.out, !.reachedEnd = (tr.err = "")],
            r |-> tr.r, err |-> tr.err])
    ELSE [p |-> [p EXCEPT !.remaining = sk.out], r |-> sk.r, err |-> ""])

\* pull(controller) of a sized part that scans for the trailer as the pull
\* of an unsized part does
sizedPull_Scans(p, r) ==
  With(readUntilBoundaryB(p.iterator, r, p.boundary.trailer), LAMBDA it :
    IF it.kind = "done"
    THEN [p |-> [p EXCEPT !.iterator = it.g, !.remaining = 0, !.reachedEnd = TRUE],
          r |-> it.r, enq |-> Null, close |-> TRUE, err |-> ""]
    ELSE IF it.kind = "throw" \/ IsNull(it.value)
    THEN [p |-> [p EXCEPT !.iterator = it.g], r |-> it.r,
          enq |-> Null, close |-> FALSE, err |-> "Invalid Multipart Part: Unexpected EOF"]
    ELSE [p |-> [p EXCEPT !.iterator = it.g,
                          !.remaining = Max(0, @ - Len(Val(it.value)))],
          r |-> it.r, enq |-> it.value, close |-> FALSE, err |-> ""])

\* pull(controller) of a sized part: [p, r, enq, close, err]
sizedPull(p, r) ==
  With(IF p.remaining # 0 THEN pullB(r, p.remaining) ELSE [r |-> r, out |-> Some(<<>>)],
       LAMBDA pl :
    IF IsNull(pl.out)
    THEN [p |-> p, r |-> pl.r, enq |-> Null, close |-> FALSE,
          err |-> "Invalid Multipart Part: Unexpected EOF"]
    ELSE LET enq == IF p.remaining # 0 THEN pl.out ELSE Null
             remaining == p.remaining - Len(Val(pl.out))
         IN IF remaining = 0
            THEN With(expectTrailer(pl.r, p.boundary), LAMBDA tr :
                   [p |-> [p EXCEPT !.remaining = 0, !.reachedEnd = (tr.err = "")],
                    r |-> tr.r, enq |-> enq, close |-> tr.err = "", err |-> tr.err])
            ELSE [p |-> [p EXCEPT !.remaining = remaining], r |-> pl.r,
                  enq |-> enq, close |-> FALSE, err |-> ""])

\* the for-await loop of cancel() of an unsized part: [g, r, err]
RECURSIVE DrainIterator(_, _, _)
DrainIterator(g, r, boundary) ==
  With(readUntilBoundaryB(g, r, boundary.trailer), LAMBDA it :
    IF it.kind = "done" THEN [g |-> it.g, r |-> it.r, err |-> ""]
    ELSE IF it.kind = "throw" THEN [g |-> it.g, r |-> it.r, err |-> "TypeError"]
    ELSE IF IsNull(it.value)
    THEN [g |-> [it.g EXCEPT !.pc = "done"], r |-> it.r,
          err |-> "Invalid Multipart Part: Unexpected EOF"]
    ELSE DrainIterator(it.g, it.r, boundary))

\* cancel() of an unsized part: [p, r, err]
unsizedCancel(p, r) ==
  With(DrainIterator(p.iterator, r, p.boundary), LAMBDA dr :
    [p |-> [p EXCEPT !.iterator = dr.g, !.reachedEnd = (dr.err = "" \/ p.reachedEnd)],
     r |-> dr.r, err |-> dr.err])

\* pull(controller) of an unsized part: [p, r, enq, close, err]
unsizedPull(p, r) ==
  With(readUntilBoundaryB(p.iterator, r, p.boundary.trailer), LAMBDA it :
    IF it.kind = "done"
    THEN [p |-> [p EXCEPT !.iterator = it.g, !.reachedEnd = TRUE], r |-> it.r,
          enq |-> Null, close |-> TRUE, err |-> ""]
    ELSE IF it.kind = "throw"
    THEN [p |-> [p EXCEPT !.iterator = it.g], r |-> it.r,
          enq |-> Null, close |-> FALSE, err |-> "TypeError"]
    ELSE IF IsNull(it.value)
    THEN [p |-> [p EXCEPT !.iterator = it.g], r |-> it.r,
          enq |-> Null, close |-> FALSE, err |-> "Invalid Multipart Part: Unexpected EOF"]
    ELSE [p |-> [p EXCEPT !.iterator = it.g], r |-> it.r,
          enq |-> it.value, close |-> FALSE, err |-> ""])

partCancel(p, r) == IF p.sized THEN sizedCancel(p, r) ELSE unsizedCancel(p, r)
partPull(p, r) == IF p.sized THEN sizedPull(p, r) ELSE unsizedPull(p, r)

\* the while loop of parseMultipart from decodeHeaders to the next yield:
\* [p, r]
MultipartLoop(p, r) ==
  With(decodeHeaders(r), LAMBDA dh :
    IF dh.err # "" THEN Fail(p, dh.r, dh.err)
    ELSE IF IsNull(dh.headers) THEN [p |-> [p EXCEPT !.pc = "done"], r |-> dh.r]
    ELSE LET headers == Val(dh.headers)
             type == HeaderGet(headers, ContentTypeKey)
             name == PartName(parseContentDisposition(
                                HeaderGet(headers, ContentDispositionKey)))
             size == parseContentLength(HeaderGet(headers, ContentLengthKey))
         IN IF IsNull(name)
            THEN Fail(p, dh.r, "Invalid Multipart Part: Missing Content-Disposition name or filename parameter")
            ELSE [p |-> [p EXCEPT !.pc = "yielded",
                                  !.sized = ~IsNull(size),
                                  !.remaining = IF IsNull(size) THEN 0 ELSE Val(size),
                                  !.reachedEnd = FALSE,
                                  !.iterator = NewSearch,
                                  !.stream = NewStream,
                                  !.parts = Append(@, MultipartPart(Val(name), type, size,
                                                                    headers, Consumed(dh.r)))],
                  r |-> dh.r])

\* the generator goes on to the next headers: the position is recorded; of
\* a payload that was not read to its end nothing is kept, and of the parts
\* before the one left only whether they were read to their end
MultipartContinue(p, r) ==
  LET k == Len(p.parts)
      left == [p EXCEPT !.parts[k].finish = Consumed(r),
                        !.parts[k].data = IF p.parts[k].complete THEN @ ELSE <<>>]
  IN IF k > 1 /\ p.parts[k - 1].how # "full"
     THEN [left EXCEPT !.parts[k - 1].how = "skipped"]
     ELSE left

\* what parseMultipart awaits after the consumer has come back for the next
\* part: (stream.locked ? cancel() : stream.cancel()) where the payload or
\* its trailer has not been consumed: [p, r, err]
multipartAdvance(p, r) ==
  IF p.remaining > 0 \/ ~p.reachedEnd
  THEN IF p.stream.locked \/ p.stream.state = "readable"
       THEN With(partCancel(p, r), LAMBDA c :
              IF p.stream.locked THEN c ELSE [c EXCEPT !.p.stream.state = "closed"])
       ELSE [p |-> p, r |-> r,
             err |-> IF p.stream.state = "errored" THEN p.stream.err ELSE ""]
  ELSE [p |-> p, r |-> r, err |-> ""]

\* one next() of the generator of parseMultipart: [p, r]
multipartNext(p, r) ==
  IF p.pc \in {"start", "yielded"}
  THEN With(IF p.pc = "start"
            THEN With(expectPreamble(r, p.boundary), LAMBDA pre :
                   [p |-> p, r |-> pre.r, err |-> pre.err])
            ELSE With(multipartAdvance(p, r), LAMBDA c :
                   [p |-> IF c.err = "" THEN MultipartContinue(c.p, c.r) ELSE c.p,
                    r |-> c.r, err |-> c.err]),
            LAMBDA c :
              IF c.err # "" THEN Fail(c.p, c.r, c.err) ELSE MultipartLoop(c.p, c.r))
  ELSE [p |-> p, r |-> r]

\* the consumer reads once from the stream of the part last yielded
partRead(p, r) ==
  With(partPull(p, r), LAMBDA pl :
    LET k == Len(p.parts)
        p1 == [pl.p EXCEPT !.stream.locked = TRUE,
                           !.parts[k].data = @ \o OutBytes(pl.enq),
                           !.parts[k].how = IF pl.close THEN "full" ELSE "part"]
    IN IF pl.err # ""
       THEN [p |-> [p1 EXCEPT !.stream.state = "errored", !.stream.err = pl.err], r |-> pl.r]
       ELSE IF pl.close
       THEN [p |-> [p1 EXCEPT !.stream.state = "closed", !.parts[k].complete = TRUE],
             r |-> pl.r]
       ELSE [p |-> p1, r |-> pl.r])

\* the consumer cancels the stream of the part last yielded
partStreamCancel(p, r) ==
  With(partCancel(p, r), LAMBDA c :
    [p |-> [c.p EXCEPT !.stream.state = "closed",
                       !.parts[Len(p.parts)].how = "cancel"],
     r |-> c.r])

----------------------------------------------------------------------------
(* Harness: a consumer of parseMultipart over a body streamMultipart wrote *)

MultipartMaxEntries == 2   \* most entries of a form

\* 'text/plain'
TextPlain == <<116, 101, 120, 116, 47, 112, 108, 97, 105, 110>>

\* payloads: two bytes; more than a block of letters; more than a block in
\* which the first bytes of the trailer recur
ShortBytes == <<104, 105>>
LongBytes == [i \in 1..(MULTIPART_BLOCK_SIZE + 8) |-> 97 + (i % 26)]
TrailerLikeBytes ==
  [i \in 1..(MULTIPART_BLOCK_SIZE + 3) |-> <<13, 10, 45, 45, 120>>[1 + (i % 5)]]

FormEntry(name, value) == [name |-> name, value |-> value]

\* the entries of the forms: names 'a', 'b', 'c', 'd' and 'e\f'
FormEntries ==
  { FormEntry(<<97>>, FormValue(FALSE, Null, <<>>, ShortBytes)),
    FormEntry(<<98>>, FormValue(TRUE, Some(<<98>>), TextPlain, LongBytes)),
    FormEntry(<<99>>, FormValue(FALSE, Null, <<>>, TrailerLikeBytes)),
    FormEntry(<<100>>, FormValue(TRUE, Null, <<>>, ShortBytes)),
    FormEntry(<<101, 92, 102>>, FormValue(FALSE, Null, <<>>, ShortBytes)) }

Forms == UNION { [1..n -> FormEntries] : n \in 0..MultipartMaxEntries }

\* the ways the source splits the body, as for the archives
FormSplits ==
  { TarSplit("written", 0, 0), TarSplit("one", 0, 0),
    TarSplit("by", 1, 1), TarSplit("by", 7, 3) }

InitMultipart ==
  /\ \E entries \in Forms, split \in FormSplits :
       \E written \in { streamMultipart(entries) } :
         \E stream \in { Flatten(written) } :
           /\ orig = stream
           /\ reader = NewReaderB(TarChunkings(split, written, stream), MULTIPART_BLOCK_SIZE)
           /\ input = [entries |-> entries, split |-> split]
  /\ pipe = [run |-> [NewMultipart(multipartContentType) EXCEPT !.pc = "new"],
             full |-> TRUE]
  /\ delivered = <<>>
  /\ last = Call("init", 0, Null, 0, 0, <<>>)

MultipartStep(op, res, full) ==
  /\ reader' = res.r
  /\ pipe' = [pipe EXCEPT !.run = res.p, !.full = full]
  /\ last' = Call(op, 0, Null, 0, 0, <<>>)
  /\ UNCHANGED <<orig, delivered, input>>

\* the consumer calls parseMultipart(stream, {contentType})
MultipartCall ==
  /\ pipe.run.pc = "new"
  /\ MultipartStep("parseMultipart", [p |-> [pipe.run EXCEPT !.pc = "start"], r |-> reader],
                   pipe.full)

\* the consumer asks the generator for the next part
MultipartNext ==
  /\ pipe.run.pc \in {"start", "yielded"}
  /\ MultipartStep("next", multipartNext(pipe.run, reader),
                   pipe.full /\ (pipe.run.pc = "yielded"
                                   => \/ pipe.run.parts[Len(pipe.run.parts)].complete
                                      \/ pipe.run.stream.state = "errored"))

\* the consumer reads from the stream of the part last yielded
PartRead ==
  /\ pipe.run.pc = "yielded"
  /\ pipe.run.stream.state = "readable"
  /\ MultipartStep("read", partRead(pipe.run, reader), pipe.full)

\* the consumer cancels the stream of the part last yielded
PartCancel ==
  /\ pipe.run.pc = "yielded"
  /\ pipe.run.stream.state = "readable"
  /\ MultipartStep("cancel", partStreamCancel(pipe.run, reader), FALSE)

\* the consumer releases its lock on the stream
PartRelease ==
  /\ pipe.run.pc = "yielded"
  /\ pipe.run.stream.locked
  /\ MultipartStep("release", [p |-> [pipe.run EXCEPT !.stream.locked = FALSE], r |-> reader],
                   pipe.full)

NextMultipart == MultipartCall \/ MultipartNext \/ PartRead \/ PartCancel \/ PartRelease

SpecMultipart == InitMultipart /\ [][NextMultipart]_vars

----------------------------------------------------------------------------
(* Properties of parseMultipart *)

\* the names of the form need no escaping
PlainNames(entries) ==
  \A k \in 1..Len(entries) :
    \A i \in 1..Len(entries[k].name) : ~EncodeNameChar(entries[k].name[i])

\* the parts yielded so far are the first entries of the form by name, and
\* every payload read to its end is the entry's bytes
PartsMatch(parts, entries) ==
  /\ Len(parts) <= Len(entries)
  /\ \A k \in 1..Len(parts) :
       /\ k <= Len(entries) => parts[k].name = entries[k].name
       /\ (k <= Len(entries) /\ parts[k].complete) =>
            parts[k].data = entries[k].value.bytes

\* C2 (parseMultipart skip-and-advance): over the body of a form, sized and
\* unsized parts alike, however the consumer treats each payload before
\* asking for the next part (reads it to its end, reads part of it, cancels
\* it, ignores it), parseMultipart does not fail, the parts yielded are the
\* entries of the form in order with their names, all of them once the run
\* has ended, and every payload read to its end is the entry's bytes.
MultipartSkipAndAdvance ==
  (pipe.run.pc # "new" /\ PlainNames(input.entries)) =>
    /\ pipe.run.pc # "failed"
    /\ PartsMatch(pipe.run.parts, input.entries)
    /\ pipe.run.pc = "done" => Len(pipe.run.parts) = Len(input.entries)

\* C9 (multipart round trip): parseMultipart over the chunks streamMultipart
\* yields for a form, every payload being read to its end, does not fail
\* and yields one part per entry, in order, with the entry's name and bytes.
MultipartRoundTrip ==
  (pipe.run.pc # "new" /\ pipe.full /\ input.split.how = "written") =>
    /\ pipe.run.pc # "failed"
    /\ PartsMatch(pipe.run.parts, input.entries)
    /\ pipe.run.pc = "done" => Len(pipe.run.parts) = Len(input.entries)

----------------------------------------------------------------------------
(* C11: pushback *)

\* C11: after bytes of a returned slice were pushed back, in one pushback or
\* in several that stack (the later bytes first, then the earlier ones), the
\* reader delivers the pushed-back bytes before any other unread byte: the
\* next read(true) returns the next block of the stream counted from the
\* first pushed-back byte, the next read(false) returns it when a whole
\* block is left, every pull returns the bytes from there on, and what the
\* reader delivers until its end is the rest of the stream from there.
PushbackStacks ==
  last.op = "pushback" =>
    LET B == reader.blockSize
        rest == Drop(orig, Len(delivered))
    IN /\ readA(reader, TRUE).out = Some(Take(rest, Min(B, Len(rest))))
       /\ Len(rest) >= B => readA(reader, FALSE).out = Some(Take(rest, B))
       /\ \A maxSize \in 1..(B + 1) :
            LET out == pullA(reader, maxSize).out
            IN ~IsNull(out) /\ Val(out) # <<>> /\ Len(Val(out)) <= maxSize
                 /\ IsPrefix(Val(out), rest)
       /\ DrainA(reader) = rest

\* a whole block given back in two pushbacks, with stream left after it
PushbackStacksWitness ==
  /\ last.op = "pushback"
  /\ last.ret = 2
  /\ last.slice = <<>>
  /\ reader.bufferSize = reader.blockSize
  /\ Len(orig) > Len(delivered) + reader.blockSize

----------------------------------------------------------------------------
(* C12: skip *)

\* C12: skip(n) on a reader with r unread bytes (the pushed-back bytes, the
\* rest of the current chunk, the chunks still to come) returns
\* n - min(n, r) and discards exactly the next min(n, r) bytes: read and
\* pull go on with the byte that follows them, and what the reader delivers
\* until its end is the stream from that byte on.
SkipExact ==
  last.op = "skip" =>
    LET n == last.arg
        r == Len(orig) - last.before
        rest == Drop(orig, last.before + Min(n, r))
    IN /\ last.ret = n - Min(n, r)
       /\ DrainA(reader) = rest
       /\ readA(reader, TRUE).out =
            (IF rest = <<>> THEN Null ELSE Some(Take(rest, Min(reader.blockSize, Len(rest)))))
       /\ rest # <<>> => pullA(reader, 1).out = Some(<<rest[1]>>)
       /\ rest = <<>> => IsNull(pullA(reader, 1).out)

\* a skip that discarded the bytes left and could not skip all it was asked
SkipExactWitness ==
  /\ last.op = "skip"
  /\ last.ret > 0
  /\ last.ret < last.arg
  /\ last.before > 0

\* a skip that ended inside the stream after bytes were pushed back
SkipExactInside ==
  /\ last.op = "skip"
  /\ last.ret = 0
  /\ last.arg > 1
  /\ Len(orig) > last.before + last.arg

\* the same of the cursor-rewind reader, step by step: a skip(n) takes the
\* unread bytes u of the reader to Drop(u, min(n, |u|)) and returns what is
\* missing
SkipExactB ==
  [][last'.op = "skip" =>
       LET n == last'.arg
           u == UnreadB(reader)
           rest == Drop(u, Min(n, Len(u)))
       IN /\ last'.ret = n - Min(n, Len(u))
          /\ UnreadB(reader') = rest
          /\ DrainB(reader') = rest
          /\ rest # <<>> => pullB(reader', 1).out = Some(<<rest[1]>>)]_vars

----------------------------------------------------------------------------
(* C13: the end of the stream in readUntilBoundary *)

\* the search harness over every stream, with or without the boundary
InitSearchEnd ==
  /\ \E P \in Boundaries, variant \in {"A", "B"} :
       /\ input = [boundary |-> P, variant |-> variant]
       /\ orig \in SeqsUpTo(MaxSearchStream)
       /\ \E chunks \in Chunkings(orig), blockSize \in Len(P)..MaxBlock :
            reader = IF variant = "A" THEN NewReaderA(chunks, blockSize)
                     ELSE NewReaderB(chunks, blockSize)
  /\ delivered = <<>>
  /\ last = Call("init", 0, Null, 0, 0, <<>>)
  /\ pipe = [g |-> NewSearch, nulls |-> 0, after |-> <<>>]

SpecSearchEnd == InitSearchEnd /\ [][NextSearch]_vars

\* what the next next() of the generator gives
SearchNextResult ==
  IF input.variant = "A" THEN readUntilBoundaryA(pipe.g, reader, input.boundary)
  ELSE readUntilBoundaryB(pipe.g, reader, input.boundary)

\* C13: readUntilBoundary yields null only where the stream does not
\* contain the boundary, at most once and as its last element (the next
\* next() ends the generator); a generator that has ended has yielded null
\* exactly if the stream does not contain the boundary, the case in which
\* the stream ends inside a partial match at the end of a block included.
SearchEndsWithNull ==
  /\ pipe.nulls <= 1
  /\ pipe.nulls = 1 =>
       /\ ~Occurs(orig, input.boundary)
       /\ SearchNextResult.kind = "done"
  /\ Occurs(orig, input.boundary) => pipe.nulls = 0
  /\ (pipe.g.pc = "done" /\ ~Occurs(orig, input.boundary)) => pipe.nulls = 1

\* a search that ended with null while the last bytes of the stream, the
\* beginning of the boundary, were being verified
SearchEndsWithNullWitness ==
  /\ pipe.g.pc = "done"
  /\ pipe.nulls = 1
  /\ input.variant = "B"
  /\ Len(input.boundary) > 1
  /\ Len(delivered) < Len(orig)
  /\ Len(orig) > reader.blockSize
  /\ orig[Len(orig)] = input.boundary[1]

----------------------------------------------------------------------------
(* C14: the trailer after a sized part *)

TrailerError == "Invalid Multipart Part: Expected trailing boundary"

\* the part last yielded is sized and its payload is followed in the body
\* by the whole trailer (CRLF, '--' and the boundary)
SizedTrailerFollows ==
  /\ pipe.run.pc \in {"yielded", "failed", "done"}
  /\ Len(pipe.run.parts) > 0
  /\ pipe.run.sized
  /\ LET part == pipe.run.parts[Len(pipe.run.parts)]
         after == part.start + Val(part.size)
     IN Slice(orig, after, after + Len(pipe.run.boundary.trailer))
          = pipe.run.boundary.trailer

\* C14 (sized part, trailer check): where the bytes after the payload of a
\* sized part are the trailer, neither the part's stream nor parseMultipart
\* fails with the trailer error once the payload has been consumed or
\* skipped.
SizedTrailerAccepted ==
  SizedTrailerFollows =>
    /\ pipe.run.err # TrailerError
    /\ pipe.run.stream.state = "errored" => pipe.run.stream.err # TrailerError

----------------------------------------------------------------------------
(* C15: the payload of a sized part *)

\* a payload longer than a block that holds the trailer and what would be
\* the closing delimiter: 'hi', CRLF, '--', the boundary, '--', CRLF, 'j'
TrailerBytes ==
  ShortBytes \o CRLF \o BOUNDARY_HYPHEN_CHARS \o BOUNDARY_ID
    \o BOUNDARY_HYPHEN_CHARS \o CRLF \o <<106>>

\* the entries of the forms with sized parts: 'a' unsized, 'b', 'd' and 'f'
\* Blobs
SizedEntries ==
  { FormEntry(<<97>>, FormValue(FALSE, Null, <<>>, ShortBytes)),
    FormEntry(<<98>>, FormValue(TRUE, Some(<<98>>), TextPlain, LongBytes)),
    FormEntry(<<100>>, FormValue(TRUE, Null, <<>>, ShortBytes)),
    FormEntry(<<102>>, FormValue(TRUE, Null, <<>>, TrailerBytes)) }

InitSized ==
  /\ \E entries \in UNION { [1..n -> SizedEntries] : n \in 0..MultipartMaxEntries },
        split \in FormSplits :
       \E written \in { streamMultipart(entries) } :
         \E stream \in { Flatten(written) } :
           /\ orig = stream
           /\ reader = NewReaderB(TarChunkings(split, written, stream), MULTIPART_BLOCK_SIZE)
           /\ input = [entries |-> entries, split |-> split]
  /\ pipe = [run |-> [NewMultipart(multipartContentType) EXCEPT !.pc = "new"],
             full |-> TRUE]
  /\ delivered = <<>>
  /\ last = Call("init", 0, Null, 0, 0, <<>>)

SpecSized == InitSized /\ [][NextMultipart]_vars

\* C15 (sized part, payload): a part is sized exactly if its entry is a
\* non-empty Blob, its size n is the Blob's length, and the n bytes of the
\* body after the blank line that ends its headers are the Blob's bytes;
\* what the consumer has been given of it is at every moment the first bytes
\* of those n, all n - remaining of them while the consumer only reads, and
\* all n once the stream has closed, also where the n bytes hold the trailer.
SizedPayloadExact ==
  \A k \in 1..Len(pipe.run.parts) :
    LET part == pipe.run.parts[k]
        bytes == input.entries[k].value.bytes
    IN /\ ~IsNull(part.size) <=> (isBlob(input.entries[k].value) /\ bytes # <<>>)
       /\ ~IsNull(part.size) =>
            LET n == Val(part.size)
            IN /\ n = Len(bytes)
               /\ Slice(orig, part.start, part.start + n) = bytes
               /\ Len(part.data) <= n
               /\ part.data = Take(bytes, Len(part.data))
               /\ part.complete => part.data = bytes
               /\ (k = Len(pipe.run.parts) /\ pipe.run.pc = "yielded"
                     /\ part.how \in {"none", "part", "full"}) =>
                    Len(part.data) = n - pipe.run.remaining

\* a sized part whose payload holds the trailer has been read to its end
SizedPayloadExactWitness ==
  /\ Len(pipe.run.parts) > 0
  /\ LET part == pipe.run.parts[Len(pipe.run.parts)]
     IN /\ ~IsNull(part.size)
        /\ part.complete
        /\ part.data = TrailerBytes
        /\ Occurs(part.data, pipe.run.boundary.trailer)

----------------------------------------------------------------------------
(* C16: the closing delimiter *)

\* what follows the '--' of the closing delimiter on the source: nothing;
\* CRLF; CRLF CRLF as streamMultipart writes it; a lone CR; 'x'; CR 'x';
\* 'x' CR; more than a block without a CRLF; an epilogue that is itself a
\* form
ClosingTails ==
  { <<>>, CRLF, CRLF \o CRLF, <<13>>, <<120>>, <<13, 120>>, <<120, 13>>,
    [i \in 1..(MULTIPART_BLOCK_SIZE + 8) |-> 120],
    CRLF \o Flatten(streamMultipart(<<FormEntry(<<98>>, FormValue(FALSE, Null, <<>>, ShortBytes))>>)) }

\* the parts before the closing delimiter: unsized, 'a'
ClosingEntries == { FormEntry(<<97>>, FormValue(FALSE, Null, <<>>, ShortBytes)) }

\* a body of parts, the delimiter, '--' and a tail
InitClosing ==
  /\ \E entries \in UNION { [1..n -> ClosingEntries] : n \in 0..MultipartMaxEntries },
        split \in FormSplits, tail \in ClosingTails :
       \E written \in { Flatten([k \in 1..Len(entries) |-> FormEntryChunks(entries[k])])
                          \o <<BOUNDARY_HYPHEN_CHARS \o BOUNDARY_ID
                                 \o BOUNDARY_HYPHEN_CHARS \o tail>> } :
         \E stream \in { Flatten(written) } :
           /\ orig = stream
           /\ reader = NewReaderB(TarChunkings(split, written, stream), MULTIPART_BLOCK_SIZE)
           /\ input = [entries |-> entries, split |-> split, tail |-> tail]
  /\ pipe = [run |-> [NewMultipart(multipartContentType) EXCEPT !.pc = "new"],
             full |-> TRUE]
  /\ delivered = <<>>
  /\ last = Call("init", 0, Null, 0, 0, <<>>)

SpecClosing == InitClosing /\ [][NextMultipart]_vars

\* C16 (closing delimiter): over a body whose last boundary is followed by
\* '--', whatever follows that, parseMultipart does not fail, yields the
\* parts before the closing delimiter and no other, and has yielded all of
\* them once it has ended.
ClosingDelimiterEnds ==
  pipe.run.pc # "new" =>
    /\ pipe.run.pc # "failed"
    /\ PartsMatch(pipe.run.parts, input.entries)
    /\ pipe.run.pc = "done" => Len(pipe.run.parts) = Len(input.entries)

----------------------------------------------------------------------------
(* C17: a stream that was cancelled or skipped.  The consumer keeps the    *)
(* stream of an entry it has cancelled, or that the generator has left     *)
(* behind, and reads from it later.  pipe.stale is that stream: the        *)
(* variables its cancel() and pull() close over (p), and what reads have   *)
(* delivered from it since (got).  A read of a stream that is closed or    *)
(* errored does not call pull().                                           *)

NoStale == [has |-> FALSE, p |-> NewStream, got |-> <<>>, pulled |-> FALSE]
Stale(p) == [has |-> TRUE, p |-> p, got |-> <<>>, pulled |-> FALSE]

StaleItems ==
  { Item("tar", Member(NameSplit, FILE, 16, 0, 5, <<>>), 0),
    Item("tar", Member(NameLong, FILE, 17, 493, 5, <<>>), 0) }

\* the ways the source splits an archive here
StaleSplits == { TarSplit("one", 0, 0), TarSplit("by", 5, 3) }

\* the entries of the forms here: 'a' unsized, 'b' and 'f' Blobs
StaleEntries ==
  { FormEntry(<<97>>, FormValue(FALSE, Null, <<>>, ShortBytes)),
    FormEntry(<<98>>, FormValue(TRUE, Some(<<98>>), TextPlain, LongBytes)),
    FormEntry(<<102>>, FormValue(TRUE, Null, <<>>, TrailerBytes)) }

InitStaleUntar ==
  /\ \E items \in UNION { [1..n -> StaleItems] : n \in 1..TarMaxEntries },
        now \in Clocks, cut \in TarCuts, split \in StaleSplits :
       \E written \in { ArchiveChunks(items, now) } :
         \E stream \in { Take(Flatten(written), Max(Len(Flatten(written)) - cut, 0)) } :
           /\ orig = stream
           /\ reader = NewReaderB(TarChunkings(split, written, stream), BLOCK_SIZE)
           /\ input = [items |-> items, now |-> now, cut |-> cut, split |-> split]
  /\ pipe = [kind |-> "untar", run |-> NewUntar, full |-> TRUE, stale |-> NoStale]

InitStaleMultipart ==
  /\ \E entries \in UNION { [1..n -> StaleEntries] : n \in 1..MultipartMaxEntries },
        split \in FormSplits :
       \E written \in { streamMultipart(entries) } :
         \E stream \in { Flatten(written) } :
           /\ orig = stream
           /\ reader = NewReaderB(TarChunkings(split, written, stream), MULTIPART_BLOCK_SIZE)
           /\ input = [entries |-> entries, split |-> split]
  /\ pipe = [kind |-> "parseMultipart", run |-> NewMultipart(multipartContentType),
             full |-> TRUE, stale |-> NoStale]

InitStale ==
  /\ InitStaleUntar \/ InitStaleMultipart
  /\ delivered = <<>>
  /\ last = Call("init", 0, Null, 0, 0, <<>>)

StaleStep(op, res, stale) ==
  /\ reader' = res.r
  /\ pipe' = [pipe EXCEPT !.run = res.p, !.stale = stale]
  /\ last' = Call(op, 0, Null, 0, 0, <<>>)
  /\ UNCHANGED <<orig, delivered, input>>

\* the stream the generator leaves behind when it is asked for the next
\* entry: the consumer keeps it, or goes on holding the one it held
LeftBehind(p) ==
  IF pipe.run.pc = "yielded" THEN {Stale(p)} \cup {pipe.stale} ELSE {pipe.stale}

\* the consumer asks untar for the next entry
StaleUntarNext ==
  /\ pipe.kind = "untar"
  /\ pipe.run.pc \in {"start", "yielded"}
  /\ \E stale \in LeftBehind(untarAdvance(pipe.run, reader).p) :
       StaleStep("next", untarNext(pipe.run, reader), stale)

\* the consumer asks parseMultipart for the next part
StaleMultipartNext ==
  /\ pipe.kind = "parseMultipart"
  /\ pipe.run.pc \in {"start", "yielded"}
  /\ \E stale \in LeftBehind(IF pipe.run.pc = "yielded"
                             THEN multipartAdvance(pipe.run, reader).p ELSE pipe.run) :
       StaleStep("next", multipartNext(pipe.run, reader), stale)

\* the consumer reads from, or releases, the stream of the entry last
\* yielded
StaleStreamRead == pipe.kind = "untar" /\ (StreamRead \/ StreamRelease)
StalePartRead == pipe.kind = "parseMultipart" /\ (PartRead \/ PartRelease)

\* the consumer cancels the stream of the entry last yielded and keeps it
StaleStreamCancel ==
  /\ pipe.kind = "untar"
  /\ pipe.run.pc = "yielded"
  /\ pipe.run.stream.state = "readable"
  /\ \E c \in { streamCancel(pipe.run, reader) } : StaleStep("cancel", c, Stale(c.p))

StalePartCancel ==
  /\ pipe.kind = "parseMultipart"
  /\ pipe.run.pc = "yielded"
  /\ pipe.run.stream.state = "readable"
  /\ \E c \in { partStreamCancel(pipe.run, reader) } : StaleStep("cancel", c, Stale(c.p))

\* the stale stream after a read that called pull()
StaleAfterPull(pl) ==
  [pipe.stale EXCEPT
     !.p = [pl.p EXCEPT !.stream.state = IF pl.err # "" THEN "errored"
                                         ELSE IF pl.close THEN "closed" ELSE @,
                        !.stream.err = IF pl.err # "" THEN pl.err ELSE @],
     !.got = @ \o OutBytes(pl.enq),
     !.pulled = TRUE]

\* the consumer reads from the stream it kept
StaleRead ==
  /\ pipe.stale.has
  /\ IF pipe.stale.p.stream.state = "readable"
     THEN \E pl \in { IF pipe.kind = "untar" THEN tarPull(pipe.stale.p, reader)
                      ELSE partPull(pipe.stale.p, reader) } :
            /\ reader' = pl.r
            /\ pipe' = [pipe EXCEPT !.stale = StaleAfterPull(pl)]
     ELSE UNCHANGED <<reader, pipe>>
  /\ last' = Call("stale read", 0, Null, 0, 0, <<>>)
  /\ UNCHANGED <<orig, delivered, input>>

NextStale ==
  \/ StaleUntarNext \/ StaleMultipartNext
  \/ StaleStreamRead \/ StalePartRead
  \/ StaleStreamCancel \/ StalePartCancel
  \/ StaleRead

SpecStale == InitStale /\ [][NextStale]_vars

\* C17 (no re-reading): reads of a stream that the consumer has cancelled,
\* or that the generator has cancelled or skipped on its way to the next
\* entry, deliver no byte, in untar and in parseMultipart, for sized and
\* unsized parts.
NoReReading == pipe.stale.has => pipe.stale.got = <<>>

\* the generator has skipped a sized part that the consumer had begun to
\* read and whose reader it still holds, and the consumer has read again:
\* pull() has run
NoReReadingWitness ==
  /\ pipe.kind = "parseMultipart"
  /\ pipe.stale.has
  /\ pipe.stale.pulled
  /\ pipe.stale.p.sized
  /\ pipe.stale.p.stream.locked
  /\ Len(pipe.run.parts) > 0
  /\ pipe.run.parts[1].how # "cancel"

\* the same for an entry of an archive
NoReReadingUntar ==
  /\ pipe.kind = "untar"
  /\ pipe.stale.has
  /\ pipe.stale.pulled
  /\ pipe.stale.p.stream.locked

----------------------------------------------------------------------------
(* C18: zero-length chunks *)

\* chunks with a zero-length chunk inserted before the chunk at index at
\* (after the last one where at = Len(chunks) + 1)
InsertEmpty(chunks, at) == Take(chunks, at - 1) \o <<<<>>>> \o Drop(chunks, at - 1)

\* a source whose chunks are non-empty but for at most one; input tells
\* whether a zero-length chunk was inserted
InitZero ==
  /\ orig \in Streams
  /\ \E chunks \in Chunkings(orig), blockSize \in 2..MaxBlock :
       \/ /\ reader = NewReaderB(chunks, blockSize)
          /\ input = [empty |-> FALSE]
       \/ \E at \in 1..(Len(chunks) + 1) :
            /\ reader = NewReaderB(InsertEmpty(chunks, at), blockSize)
            /\ input = [empty |-> TRUE]
  /\ delivered = <<>>
  /\ last = Call("init", 0, Null, 0, 0, <<>>)
  /\ pipe = Unused

NextZero == BRead \/ BPull

SpecZero == InitZero /\ [][NextZero]_vars

\* read() has returned a full block, or what it returned (a shorter block
\* or null) is the end of the source: no byte is left unread
ReadFullUntilEnd ==
  last.op = "read" =>
    \/ ~IsNull(last.out) /\ Len(Val(last.out)) = reader.blockSize
    \/ UnreadB(reader) = <<>>

\* C18 (zero-length chunks): with or without a zero-length chunk among the
\* chunks of the source, what read() and pull() have delivered is the
\* beginning of the stream, and read() returns full blocks until the real
\* end of the source.
ZeroChunksNoOp ==
  /\ IsPrefix(delivered, orig)
  /\ ReadFullUntilEnd

\* the same over sources without a zero-length chunk
NonEmptyChunksRead == ~input.empty => ZeroChunksNoOp

----------------------------------------------------------------------------
(* C19: an archive that ends too early *)

NameDir == <<97, 47>>

\* what the archives here are made of: a directory, a file, a file with
\* its size in a PAX record, a file with a GNU long name
CutItems == {"dir", "file", "pax", "gnu"}

CutPart(kind, cells) == [kind |-> kind, cells |-> cells]

\* the parts of one item on the wire, each a header block ("header"), the
\* padded payload of an extension header ("ext") or the padded payload of
\* the entry ("payload")
CutItemParts(item, now) ==
  LET file == Member(NameA, FILE, 3, 420, 5, <<>>)
      body == CutPart("payload", Padded(Payload(file.size, 30)))
  IN IF item = "dir"
     THEN <<CutPart("header", encodeHeader(HeaderOf(Member(NameDir, DIRECTORY, 0, 493, 5, <<>>)),
                                           now))>>
     ELSE IF item = "file"
     THEN <<CutPart("header", encodeHeader(HeaderOf(file), now)), body>>
     ELSE IF item = "pax"
     THEN LET pax == encodePaxEntry(KeySize, DigitsOf(file.size, 10))
          IN <<CutPart("header", encodeHeader([EmptyHeader EXCEPT !.typeflag = PAX,
                                                                  !.size = Len(pax)], now)),
               CutPart("ext", Padded(Cells(pax))),
               CutPart("header", encodeHeader(HeaderOf(file), now)),
               body>>
     ELSE <<CutPart("header", encodeHeader([EmptyHeader EXCEPT !.typeflag = LONG_NAME,
                                                               !.size = Len(NameLong) + 1],
                                           now)),
            CutPart("ext", Padded(Cells(NameLong))),
            CutPart("header", encodeHeader(HeaderOf(file), now)),
            body>>

CutItemCells(item, now) ==
  Flatten([j \in 1..Len(CutItemParts(item, now)) |-> CutItemParts(item, now)[j].cells])

\* the numbers of cells of part j of the last item that may be present
\* when the source ends in it: some and not all of a header block or of an
\* extension payload, none or some and not all of the entry's payload
CutKeeps(part) ==
  IF part.kind = "payload" THEN 0..(Len(part.cells) - 1) ELSE 1..(Len(part.cells) - 1)

\* an archive whose source ends inside part j of its last item, keep cells
\* of that part being present
InitCut ==
  /\ \E items \in UNION { [1..n -> CutItems] : n \in 1..TarMaxEntries },
        now \in Clocks, split \in StaleSplits :
       \E parts \in { CutItemParts(items[Len(items)], now) } :
         \E j \in 1..Len(parts) :
           \E keep \in CutKeeps(parts[j]) :
             \E stream \in { Flatten([k \in 1..(Len(items) - 1) |-> CutItemCells(items[k], now)])
                               \o Flatten([i \in 1..(j - 1) |-> parts[i].cells])
                               \o Take(parts[j].cells, keep) } :
               /\ orig = stream
               /\ reader = NewReaderB(TarChunkings(split, <<>>, stream), BLOCK_SIZE)
               /\ input = [items |-> items, now |-> now, split |-> split,
                           kind |-> parts[j].kind, keep |-> keep,
                           last |-> j = Len(parts)]
  /\ pipe = [run |-> [NewUntar EXCEPT !.pc = "new"], full |-> TRUE,
             fullRun |-> NewUntar, wholeRun |-> NewUntar]
  /\ delivered = <<>>
  /\ last = Call("init", 0, Null, 0, 0, <<>>)

SpecCut == InitCut /\ [][NextUntar]_vars

\* C19 (unexpected end of input): over an archive whose source ends inside
\* a header block, inside the payload of a PAX or long-name header, or
\* before the payload and padding of its last entry are complete, untar
\* never completes normally, and it yields the last entry only where the
\* source ends after that entry's own header block.
CutNeverCompletes ==
  /\ pipe.run.pc # "done"
  /\ Len(pipe.run.entries) <= Len(input.items) - (IF input.kind = "payload" THEN 0 ELSE 1)

----------------------------------------------------------------------------
(* C20: the checksum of a header block *)

ChecksumError == "Invalid Tar: Unexpected block with invalid checksum"

\* the typeflags decodeHeader has a case for, and some it has none for
RecognisedTypes ==
  { OLD_FILE, FILE, CONTIGUOUS_FILE, LINK, SYMLINK, DIRECTORY,
    PAX, GAX, LONG_NAME, OLD_LONG_NAME, LONG_LINK_NAME }
OtherTypes == { CHAR_DEV, BLOCK_DEV, FIFO, 65 }

\* the header block of an empty entry 'a' with the given typeflag and the
\* given number in its chksum field
ChecksumBlock(typeflag, stored, now) ==
  [encodeHeader(HeaderOf(Member(NameA, FILE, 0, 420, 5, <<>>)), now)
     EXCEPT ![8] = IF typeflag = 0 THEN <<>> ELSE <<typeflag>>,
            ![7] = encodeOctal(8, stored)]

\* 256 plus the sum of the bytes of the block outside its chksum field
BlockSum(block) == CHECKSUM_INITIAL + SumFields(block, 1)

\* an archive of one such block: its chksum field holds the block's sum,
\* the sum plus one, 256, or nothing
InitChecksum ==
  /\ \E typeflag \in RecognisedTypes \cup OtherTypes, now \in Clocks,
        wrong \in {"right", "plus one", "256", "none"}, split \in StaleSplits :
       \E sum \in { BlockSum(ChecksumBlock(typeflag, 0, now)) } :
         \E stored \in { IF wrong = "right" THEN sum
                         ELSE IF wrong = "plus one" THEN sum + 1
                         ELSE IF wrong = "256" THEN CHECKSUM_INITIAL ELSE 0 } :
           \E written \in { <<ChecksumBlock(typeflag, stored, now),
                              ZeroCells(BLOCK_SIZE * 2)>> } :
             /\ orig = Flatten(written)
             /\ reader = NewReaderB(TarChunkings(split, written, Flatten(written)),
                                    BLOCK_SIZE)
             /\ input = [typeflag |-> typeflag, stored |-> stored, sum |-> sum,
                         wrong |-> wrong, split |-> split]
  /\ pipe = [run |-> [NewUntar EXCEPT !.pc = "new"], full |-> TRUE,
             fullRun |-> NewUntar, wholeRun |-> NewUntar]
  /\ delivered = <<>>
  /\ last = Call("init", 0, Null, 0, 0, <<>>)

SpecChecksum == InitChecksum /\ [][NextUntar]_vars

\* C20 (checksum policy): once untar has decoded the block, it has failed
\* with the checksum error exactly if the block's typeflag is not a
\* recognised one and the number in its chksum field is not 256 plus the
\* sum of the bytes outside that field.
ChecksumPolicy ==
  pipe.run.pc \in {"yielded", "done", "failed"} =>
    (pipe.run.err = ChecksumError
       <=> (input.typeflag \notin RecognisedTypes /\ input.stored # input.sum))

\* a wrong checksum on a recognised typeflag never makes untar fail
RecognisedNeverFails ==
  input.typeflag \in RecognisedTypes => pipe.run.pc # "failed"

\* but for a chksum field that holds 256 the policy is kept
ChecksumPolicyBut256 == input.wrong # "256" => ChecksumPolicy

----------------------------------------------------------------------------
(* C21: the end of the archive *)

NonHeaderError == "Invalid Tar: Unexpected non-header block"

\* blocks without ustar magic: all zero; a block of payload bytes; a block
\* of which only the first, or only the last, cell is not zero
EndBlocks == {"zero", "payload", "first", "last"}

EndBlock(kind) ==
  IF kind = "zero" THEN ZeroCells(BLOCK_SIZE)
  ELSE IF kind = "payload" THEN Payload(BLOCK_SIZE, 60)
  ELSE IF kind = "first" THEN <<<<1>>>> \o ZeroCells(BLOCK_SIZE - 1)
  ELSE ZeroCells(BLOCK_SIZE - 1) \o <<<<1>>>>

\* what follows that block on the source: nothing; a second zero block; a
\* file and the two zero blocks; a block of payload bytes
EndTails == {"none", "zero", "file", "payload"}

EndTail(kind, now) ==
  IF kind = "none" THEN <<>>
  ELSE IF kind = "zero" THEN ZeroCells(BLOCK_SIZE)
  ELSE IF kind = "file" THEN CutItemCells("file", now) \o ZeroCells(BLOCK_SIZE * 2)
  ELSE Payload(BLOCK_SIZE, 60)

\* an archive of directories and files, a block without magic where the
\* next header would be, and a tail
InitEnd ==
  /\ \E items \in UNION { [1..n -> {"dir", "file"}] : n \in 0..TarMaxEntries },
        now \in Clocks, block \in EndBlocks, tail \in EndTails, split \in StaleSplits :
       \E head \in { Flatten([k \in 1..Len(items) |-> CutItemCells(items[k], now)]) } :
         \E stream \in { head \o EndBlock(block) \o EndTail(tail, now) } :
           /\ orig = stream
           /\ reader = NewReaderB(TarChunkings(split, <<>>, stream), BLOCK_SIZE)
           /\ input = [items |-> items, now |-> now, block |-> block, tail |-> tail,
                       split |-> split, at |-> Len(head)]
  /\ pipe = [run |-> [NewUntar EXCEPT !.pc = "new"], full |-> TRUE,
             fullRun |-> NewUntar, wholeRun |-> NewUntar]
  /\ delivered = <<>>
  /\ last = Call("init", 0, Null, 0, 0, <<>>)

SpecEnd == InitEnd /\ [][NextUntar]_vars

\* C21 (end of archive): over an archive with a block without ustar magic
\* where a header is due, untar yields the entries before that block and no
\* other; where the block is all zero it does not fail, and once it has
\* completed it has yielded all of them and the reader has handed out
\* nothing beyond that block; where the block holds a non-zero byte it
\* never completes, and fails with 'Unexpected non-header block'.
EndOfArchive ==
  /\ Len(pipe.run.entries) <= Len(input.items)
  /\ input.block = "zero" =>
       /\ pipe.run.pc # "failed"
       /\ pipe.run.pc = "done" =>
            /\ Len(pipe.run.entries) = Len(input.items)
            /\ Consumed(reader) = input.at + BLOCK_SIZE
  /\ input.block # "zero" =>
       /\ pipe.run.pc # "done"
       /\ pipe.run.pc = "failed" =>
            /\ pipe.run.err = NonHeaderError
            /\ Len(pipe.run.entries) = Len(input.items)

\* untar has completed at an all-zero block that is followed by a file
EndOfArchiveWitness ==
  /\ pipe.run.pc = "done"
  /\ input.block = "zero"
  /\ input.tail = "file"
  /\ Len(input.items) > 0

\* untar has failed at a block of which only the last cell is not zero
EndOfArchiveFails ==
  /\ pipe.run.pc = "failed"
  /\ input.block = "last"
  /\ Len(pipe.run.entries) > 0


----------------------------------------------------------------------------
(* C22: the records of a PAX payload *)

PaxMaxRecords == 2

PaxKeys == { KeyPath, KeyLinkpath, KeySize, KeyUid, KeyUname, <<99>> }

PaxValues == { <<49>>, <<50, 50>> }

PaxRecordSet == [key : PaxKeys, value : PaxValues]

\* the payload of the records, written as encodePax writes its own
PaxPayload(records) ==
  Flatten([i \in 1..Len(records) |-> encodePaxEntry(records[i].key, records[i].value)])

\* the records applied one after the other
RECURSIVE PaxFold(_, _)
PaxFold(h, records) ==
  IF records = <<>> THEN h
  ELSE PaxFold(PaxApply(h, Head(records).key, Head(records).value), Tail(records))

InitPax ==
  /\ \E records \in UNION { [1..n -> PaxRecordSet] : n \in 0..PaxMaxRecords },
        global \in BOOLEAN, split \in StaleSplits :
       \E payload \in { PaxPayload(records) } :
         \E stream \in { Padded(Cells(payload)) } :
           /\ orig = stream
           /\ reader = NewReaderB(TarChunkings(split, <<>>, stream), BLOCK_SIZE)
           /\ input = [records |-> records, global |-> global, split |-> split,
                       header |-> [EmptyHeader EXCEPT !.size = Len(payload)]]
  /\ pipe = [done |-> FALSE, gax |-> Null, header |-> EmptyHeader, err |-> ""]
  /\ delivered = <<>>
  /\ last = Call("init", 0, Null, 0, 0, <<>>)

\* decodePax on the payload, as decodeHeader calls it for 'g' and for 'x'
PaxDecode ==
  /\ ~pipe.done
  /\ \E res \in { decodePax(reader, IF input.global THEN Some(EmptyHeader) ELSE Null,
                            input.header) } :
       /\ reader' = res.r
       /\ pipe' = [done |-> TRUE, gax |-> res.gax, header |-> res.header, err |-> res.err]
  /\ UNCHANGED <<orig, delivered, last, input>>

NextPax == PaxDecode

SpecPax == InitPax /\ [][NextPax]_vars

\* C22 (PAX record parsing): after decodePax has read a payload of k
\* well-formed records, the header (and, for a global header, the global
\* defaults) carries all k records applied in order, a later record
\* overriding an earlier one of the same key.
PaxAllRecords ==
  pipe.done =>
    /\ pipe.err = ""
    /\ pipe.header = PaxFold(input.header, input.records)
    /\ input.global => pipe.gax = Some(PaxFold(EmptyHeader, input.records))

\* only the first record of the payload is applied
PaxFirstRecordOnly ==
  pipe.done =>
    /\ pipe.err = ""
    /\ pipe.header = PaxFold(input.header, Take(input.records, Min(1, Len(input.records))))
    /\ input.global => pipe.gax = Some(PaxFold(EmptyHeader, Take(input.records, Min(1, Len(input.records)))))

\* a path record followed by a linkpath record has been decoded
PaxPathAndLinkpath ==
  /\ pipe.done
  /\ Len(input.records) = 2
  /\ input.records[1].key = KeyPath
  /\ input.records[2].key = KeyLinkpath

----------------------------------------------------------------------------
(* C23: GNU long names and long link names *)

LongSizes == { 1, 4, BLOCK_SIZE - 1, BLOCK_SIZE, BLOCK_SIZE + 1, 2 * BLOCK_SIZE + 1 }

LongTypes == { LONG_NAME, OLD_LONG_NAME, LONG_LINK_NAME }

\* a name of s bytes, its last byte a NUL where the writer terminates it
LongNameBytes(s, nul) == [i \in 1..s |-> IF nul /\ i = s THEN 0 ELSE 97 + (i % 26)]

\* the entry the long name belongs to
LongMember(next) ==
  IF next = "file" THEN Member(NameA, FILE, 3, 420, 5, <<>>)
  ELSE Member(NameA, SYMLINK, 0, 420, 5, NameDir)

InitLong ==
  /\ \E typeflag \in LongTypes, s \in LongSizes, nul \in BOOLEAN,
        next \in {"file", "link"}, now \in Clocks, split \in StaleSplits :
       \E written \in { <<encodeHeader([EmptyHeader EXCEPT !.typeflag = typeflag,
                                                           !.size = s], now),
                          Padded(Cells(LongNameBytes(s, nul))),
                          encodeHeader(HeaderOf(LongMember(next)), now),
                          Padded(Payload(LongMember(next).size, 30)),
                          ZeroCells(BLOCK_SIZE * 2)>> } :
         /\ orig = Flatten(written)
         /\ reader = NewReaderB(TarChunkings(split, written, Flatten(written)), BLOCK_SIZE)
         /\ input = [typeflag |-> typeflag, size |-> s, nul |-> nul, next |-> next,
                     now |-> now, split |-> split,
                     long |-> LongNameBytes(IF nul THEN s - 1 ELSE s, FALSE)]
  /\ pipe = [run |-> [NewUntar EXCEPT !.pc = "new"], full |-> TRUE,
             fullRun |-> NewUntar, wholeRun |-> NewUntar]
  /\ delivered = <<>>
  /\ last = Call("init", 0, Null, 0, 0, <<>>)

SpecLong == InitLong /\ [][NextUntar]_vars

\* what C23 states of one run
LongRead ==
  /\ pipe.run.pc # "failed"
  /\ pipe.run.pc = "done" => Len(pipe.run.entries) = 1
  /\ Len(pipe.run.entries) <= 1
  /\ \A k \in 1..Len(pipe.run.entries) :
       LET e == pipe.run.entries[k]
       IN /\ e.start = BLOCK_SIZE + input.size + blockPad(input.size) + BLOCK_SIZE
          /\ e.name = IF input.typeflag = LONG_LINK_NAME \/ input.long = <<>>
                      THEN NameA ELSE input.long
          /\ input.next = "link" =>
               e.linkname = IF input.typeflag = LONG_LINK_NAME /\ input.long # <<>>
                            THEN input.long ELSE NameDir

\* C23 (GNU long name / long link): over an L, N or K header of declared
\* size s followed by its padded payload and the header of an entry, untar
\* does not fail, yields that one entry with, as its name (L, N) or its link
\* name (K), the s payload bytes up to their first NUL, and has read the
\* entry's header from the block after the ceil(s / BLOCK_SIZE) payload
\* blocks, for every s.
LongNameWholeSize == LongRead

\* the same for the sizes of at most one block
LongNameOneBlock == input.size <= BLOCK_SIZE => LongRead

\* the entry after a long name of one block and one byte has been decoded
LongNameTwoBlocks ==
  /\ input.size = BLOCK_SIZE + 1
  /\ pipe.run.pc \in {"done", "failed"}

----------------------------------------------------------------------------
(* C24: how far an extension header reaches *)

\* the extension headers: global and local PAX headers with one record, a
\* GNU long name and a GNU long link name
ScopeExts ==
  [ext : {GAX, PAX}, key : {KeyPath, KeyLinkpath, KeySize, KeyUid, KeyUname}]
    \cup { [ext |-> LONG_NAME, key |-> KeyPath], [ext |-> LONG_LINK_NAME, key |-> KeyLinkpath] }

\* the value the extension header sets; for size it is the size the
\* entries have
ScopeValue(key) == IF key = KeySize THEN <<51>> ELSE <<50, 50>>

\* the entries after the extension header: symlinks where the link name is
\* looked at, files of three bytes otherwise
ScopeMember(key) ==
  IF key = KeyLinkpath THEN Member(NameA, SYMLINK, 0, 420, 5, NameDir)
  ELSE Member(NameA, FILE, 3, 420, 5, <<>>)

ScopeEntryCells(key, now) ==
  encodeHeader(HeaderOf(ScopeMember(key)), now)
    \o Padded(Payload(ScopeMember(key).size, 30))

ScopeExtCells(e, now) ==
  LET payload == IF e.ext \in {GAX, PAX} THEN encodePaxEntry(e.key, ScopeValue(e.key))
                 ELSE ScopeValue(e.key) \o <<0>>
  IN encodeHeader([EmptyHeader EXCEPT !.typeflag = e.ext, !.size = Len(payload)], now)
       \o Padded(Cells(payload))

\* what an emitted entry shows of a key, and what it shows when nothing but
\* its own header block has set it
ScopeShown(entry, key) ==
  IF key = KeyPath THEN entry.name
  ELSE IF key = KeyLinkpath THEN entry.linkname
  ELSE IF key = KeySize THEN entry.paxSize
  ELSE IF key = KeyUid THEN entry.uid
  ELSE entry.uname

ScopeOwn(key) ==
  IF key = KeyPath THEN NameA
  ELSE IF key = KeyLinkpath THEN NameDir
  ELSE IF key = KeySize THEN Null
  ELSE IF key = KeyUid THEN 0
  ELSE <<>>

ScopeSet(key) ==
  IF key = KeySize THEN Some(NumberOf(ScopeValue(key)))
  ELSE IF key = KeyUid THEN NumberOf(ScopeValue(key))
  ELSE ScopeValue(key)

\* an extension header, then TarMaxEntries entries
InitScope ==
  /\ \E e \in ScopeExts, before \in BOOLEAN, now \in Clocks, split \in StaleSplits :
       \E stream \in { (IF before THEN ScopeEntryCells(e.key, now) ELSE <<>>)
                         \o ScopeExtCells(e, now)
                         \o Flatten([k \in 1..TarMaxEntries |-> ScopeEntryCells(e.key, now)])
                         \o ZeroCells(BLOCK_SIZE * 2) } :
         /\ orig = stream
         /\ reader = NewReaderB(TarChunkings(split, <<>>, stream), BLOCK_SIZE)
         /\ input = [ext |-> e.ext, key |-> e.key, now |-> now, split |-> split,
                     before |-> IF before THEN 1 ELSE 0]
  /\ pipe = [run |-> [NewUntar EXCEPT !.pc = "new"], full |-> TRUE,
             fullRun |-> NewUntar, wholeRun |-> NewUntar]
  /\ delivered = <<>>
  /\ last = Call("init", 0, Null, 0, 0, <<>>)

SpecScope == InitScope /\ [][NextUntar]_vars

\* entry k of the run shows the key as the first n entries after the
\* extension header show what it has set, and every other entry its own
ScopeReaches(n) ==
  /\ pipe.run.pc # "failed"
  /\ pipe.run.pc = "done" => Len(pipe.run.entries) = input.before + TarMaxEntries
  /\ \A k \in 1..Len(pipe.run.entries) :
       ScopeShown(pipe.run.entries[k], input.key)
         = IF k > input.before /\ k <= input.before + n
           THEN ScopeSet(input.key) ELSE ScopeOwn(input.key)

\* C24 (PAX scope): the key a global extended header sets shows in every
\* entry emitted after it; the key a local extended header, a long name or
\* a long link name sets shows in the next entry emitted and in no entry
\* after that.
PaxScope == IF input.ext = GAX THEN ScopeReaches(TarMaxEntries) ELSE ScopeReaches(1)

\* the same, but for path, linkpath and size in a global header
PaxScopeCopied ==
  (input.ext = GAX /\ input.key \in {KeyPath, KeyLinkpath, KeySize}) \/ PaxScope

\* path, linkpath and size of a global header reach the next entry only
PaxScopeGlobalNext ==
  (input.ext = GAX /\ input.key \in {KeyPath, KeyLinkpath, KeySize}) => ScopeReaches(1)

----------------------------------------------------------------------------
(* C25: a header of another type *)

OtherSizes == { 0, 3, BLOCK_SIZE + 1 }

\* the entry of another type: a header block with its checksum, and the
\* padded payload of the size it declares
OtherCells(typeflag, size, now) ==
  encodeHeader([HeaderOf(Member(NameDir, FILE, size, 420, 5, <<>>))
                  EXCEPT !.typeflag = typeflag], now)
    \o Padded(Payload(size, 60))

\* files before and after the entry of another type
InitOther ==
  /\ \E typeflag \in OtherTypes, size \in OtherSizes, before \in 0..1, after \in 0..1,
        now \in Clocks, split \in StaleSplits :
       \E file \in { CutItemCells("file", now) } :
         \E stream \in { (IF before = 1 THEN file ELSE <<>>)
                           \o OtherCells(typeflag, size, now)
                           \o (IF after = 1 THEN file ELSE <<>>)
                           \o ZeroCells(BLOCK_SIZE * 2) } :
           /\ orig = stream
           /\ reader = NewReaderB(TarChunkings(split, <<>>, stream), BLOCK_SIZE)
           /\ input = [typeflag |-> typeflag, size |-> size, before |-> before,
                       after |-> after, now |-> now, split |-> split]
  /\ pipe = [run |-> [NewUntar EXCEPT !.pc = "new"], full |-> TRUE,
             fullRun |-> NewUntar, wholeRun |-> NewUntar]
  /\ delivered = <<>>
  /\ last = Call("init", 0, Null, 0, 0, <<>>)

SpecOther == InitOther /\ [][NextUntar]_vars

\* C25 (unrecognised typeflag with valid checksum): untar does not fail,
\* and once it has completed it has emitted the block of the other type as
\* an entry of that name, type and size, between the files around it.
OtherEmitted ==
  /\ pipe.run.pc # "failed"
  /\ pipe.run.pc = "done" =>
       /\ Len(pipe.run.entries) = input.before + 1 + input.after
       /\ LET e == pipe.run.entries[input.before + 1]
          IN /\ e.name = NameDir
             /\ e.typeflag = input.typeflag
             /\ e.size = input.size

\* the block of the other type and its payload are passed over: the files
\* around it are all that is emitted, each read from its own header block
OtherDropped ==
  /\ pipe.run.pc # "failed"
  /\ \A k \in 1..Len(pipe.run.entries) :
       /\ pipe.run.entries[k].name = NameA
       /\ pipe.run.entries[k].typeflag = FILE
  /\ pipe.run.pc = "done" => Len(pipe.run.entries) = input.before + input.after

----------------------------------------------------------------------------
(* C26: the framing of what tar() writes *)

\* entries whose streams deliver the size they declare: files of no byte,
\* of less than a block, of a block and of more, a file whose name needs a
\* PAX header, a directory, a hard link, and symbolic links of no byte, of
\* three bytes and of a block
FrameEntries ==
  { Member(NameA, FILE, s, 420, 5, <<>>) : s \in {0, 3, BLOCK_SIZE, BLOCK_SIZE + 1} }
    \cup { Member(NameLong, FILE, 3, 420, 5, <<>>),
           Member(NameDir, DIRECTORY, 0, 493, 5, <<>>),
           Member(NameA, LINK, 0, 420, 5, NameDir) }
    \cup { Member(NameA, SYMLINK, s, 420, 5, NameDir) : s \in {0, 3, BLOCK_SIZE} }

\* the number of chunks tar() yields for an entry before the entry's own
\* header block
FramePaxChunks(entry) ==
  With(encodePax(TarHeaderLink(TarHeaderName(TarHeaderType(TarHeaderInit(entry))))),
       LAMBDA pax : IF pax = <<>> THEN 0 ELSE IF blockPad(Len(pax)) # 0 THEN 3 ELSE 2)

InitFrame ==
  /\ \E entries \in UNION { [1..n -> FrameEntries] : n \in 0..TarMaxEntries }, now \in Clocks :
       input = [entries |-> entries, now |-> now]
  /\ pipe = [k |-> 0, out |-> <<>>, headers |-> {}, body |-> <<>>, done |-> FALSE]
  /\ orig = <<>>
  /\ reader = NewReaderB(<<>>, BLOCK_SIZE)
  /\ delivered = <<>>
  /\ last = Call("init", 0, Null, 0, 0, <<>>)

\* tar() takes the next entry and yields its chunks; the offsets of the
\* header blocks among them and the number of bytes that follow the entry's
\* own header block are noted
FrameYield ==
  /\ ~pipe.done
  /\ pipe.k < Len(input.entries)
  /\ \E entry \in { input.entries[pipe.k + 1] } :
       \E chunks \in { tarEntry(entry, input.now) } :
         \E at \in { Len(pipe.out) + Len(Flatten(Take(chunks, FramePaxChunks(entry)))) } :
           pipe' = [pipe EXCEPT !.k = @ + 1,
                                !.out = @ \o Flatten(chunks),
                                !.headers = @ \cup {Len(pipe.out), at},
                                !.body = Append(@, Len(pipe.out) + Len(Flatten(chunks))
                                                     - at - BLOCK_SIZE)]
  /\ last' = Call("tar", 0, Null, 0, 0, <<>>)
  /\ UNCHANGED <<reader, orig, delivered, input>>

\* tar() yields the end of the archive
FrameEnd ==
  /\ ~pipe.done
  /\ pipe.k = Len(input.entries)
  /\ pipe' = [pipe EXCEPT !.out = @ \o ZeroCells(BLOCK_SIZE * 2), !.done = TRUE]
  /\ last' = Call("end", 0, Null, 0, 0, <<>>)
  /\ UNCHANGED <<reader, orig, delivered, input>>

NextFrame == FrameYield \/ FrameEnd

SpecFrame == InitFrame /\ [][NextFrame]_vars

AllZero(cells) == \A i \in 1..Len(cells) : IsZeroCell(cells[i])

\* C26 (tar encoder framing): every header block tar() has written starts
\* at a multiple of the block size; a symbolic link is followed by no
\* payload and no padding byte; and once tar() has completed its output is
\* a whole number of blocks, the last two all zero and the one before them
\* not.
TarFraming ==
  /\ \A at \in pipe.headers : at % BLOCK_SIZE = 0
  /\ \A k \in 1..pipe.k : input.entries[k].typeflag = SYMLINK => pipe.body[k] = 0
  /\ pipe.done =>
       /\ Len(pipe.out) % BLOCK_SIZE = 0
       /\ Len(pipe.out) >= 2 * BLOCK_SIZE
       /\ AllZero(Drop(pipe.out, Len(pipe.out) - 2 * BLOCK_SIZE))
       /\ Len(pipe.out) >= 3 * BLOCK_SIZE =>
            ~AllZero(SubSeq(pipe.out, Len(pipe.out) - 3 * BLOCK_SIZE + 1,
                            Len(pipe.out) - 2 * BLOCK_SIZE))

\* the same over the entries of which no symbolic link declares a size
\* that is not a whole number of blocks
TarFramingWholeLinks ==
  (\A k \in 1..Len(input.entries) :
     input.entries[k].typeflag = SYMLINK => blockPad(input.entries[k].size) = 0)
    => TarFraming

----------------------------------------------------------------------------
(* C27: the limits of a part's header section *)

HeaderLimitError ==
  "Invalid Multipart Headers: A header exceeded its maximum length of 16kB"

HeadersLimitError ==
  "Invalid Multipart Headers: Headers exceeded their maximum length of 32kB"

\* 'Content-Disposition: form-data; name="a"'
LimitDisposition == DispositionText \o <<97, 34>>

\* the header lines after the Content-Disposition line, by their lengths:
\* none; a short line; lines that bring the section to MAX_HEADER_SIZE and
\* one byte beyond it; a line of MAX_HEADER_SIZE bytes and of one more; two
\* lines below MAX_HEADER_SIZE that bring the section to less than
\* MAX_HEADERS_SIZE, to MAX_HEADERS_SIZE and one byte beyond it; two lines
\* of MAX_HEADER_SIZE
LimitCases ==
  LET first == Len(LimitDisposition) + Len(CRLF)
      half == (MAX_HEADERS_SIZE - first) \div 2 - Len(CRLF)
  IN { <<>>, <<20>>,
       <<MAX_HEADER_SIZE - first - Len(CRLF)>>, <<MAX_HEADER_SIZE - first - Len(CRLF) + 1>>,
       <<MAX_HEADER_SIZE>>, <<MAX_HEADER_SIZE + 1>>,
       <<100, 100>>, <<half, half>>, <<half, half + 1>>,
       <<MAX_HEADER_SIZE, MAX_HEADER_SIZE>> }

\* a header line of n bytes, 'x:' and its value
LimitLine(n) == <<120, 58>> \o [i \in 1..(n - 2) |-> 98]

LimitLines(extra) == <<LimitDisposition>> \o [k \in 1..Len(extra) |-> LimitLine(extra[k])]

\* the lengths of the lines with their CRLF, added up
RECURSIVE LimitTotal(_)
LimitTotal(lines) ==
  IF lines = <<>> THEN 0 ELSE Len(Head(lines)) + Len(CRLF) + LimitTotal(Tail(lines))

\* a body of one part with these header lines, as streamMultipart frames it
LimitBody(lines) ==
  BOUNDARY_HYPHEN_CHARS \o BOUNDARY_ID \o CRLF
    \o Flatten([k \in 1..Len(lines) |-> lines[k] \o CRLF]) \o CRLF
    \o ShortBytes \o CRLF \o FORM_FOOTER

InitLimit ==
  /\ \E extra \in LimitCases, split \in FormSplits \ { TarSplit("written", 0, 0) } :
       \E lines \in { LimitLines(extra) } :
         \E stream \in { LimitBody(lines) } :
           /\ orig = stream
           /\ reader = NewReaderB(TarChunkings(split, <<>>, stream), MULTIPART_BLOCK_SIZE)
           /\ input = [lines |-> lines, split |-> split, total |-> LimitTotal(lines),
                       longest |-> Greatest({ Len(lines[k]) : k \in 1..Len(lines) })]
  /\ pipe = [run |-> [NewMultipart(multipartContentType) EXCEPT !.pc = "new"],
             full |-> TRUE]
  /\ delivered = <<>>
  /\ last = Call("init", 0, Null, 0, 0, <<>>)

SpecLimit == InitLimit /\ [][NextMultipart]_vars

LimitWithin == input.longest <= MAX_HEADER_SIZE /\ input.total <= MAX_HEADERS_SIZE

\* C27 (multipart header limits): parseMultipart yields the part if each
\* line of its header section is at most MAX_HEADER_SIZE long and the lines
\* with their CRLF total at most MAX_HEADERS_SIZE, and fails with one of the
\* two limit errors, without yielding it, if not.
HeaderLimits ==
  /\ LimitWithin => pipe.run.pc # "failed"
  /\ ~LimitWithin =>
       /\ pipe.run.parts = <<>>
       /\ pipe.run.pc # "done"
       /\ pipe.run.pc = "failed" => pipe.run.err \in {HeaderLimitError, HeadersLimitError}

\* the limit the code puts on the section is that of a line
HeaderLimitsOfCode ==
  /\ input.total <= MAX_HEADER_SIZE => pipe.run.pc # "failed"
  /\ input.total > MAX_HEADER_SIZE =>
       /\ pipe.run.parts = <<>>
       /\ pipe.run.pc # "done"
       /\ pipe.run.pc = "failed" =>
            pipe.run.err = IF input.longest > MAX_HEADER_SIZE
                           THEN HeaderLimitError ELSE HeadersLimitError

\* a part whose header section is within both limits has been refused
HeaderLimitsRefused ==
  /\ LimitWithin
  /\ pipe.run.pc = "failed"
  /\ pipe.run.err = HeadersLimitError

----------------------------------------------------------------------------
(* C28: the round trip of a name *)

NameMaxLen == 3

\* 'a', backslash, double quote, line feed, '%' and the hex digit '4'
NameChars == { 97, 92, 34, 10, 37, 52 }

InitName ==
  /\ \E s \in UNION { [1..n -> NameChars] : n \in 0..NameMaxLen } :
       input = [s |-> s]
  /\ pipe = [done |-> FALSE, encoded |-> <<>>, decoded |-> <<>>]
  /\ orig = <<>>
  /\ reader = NewReaderB(<<>>, MULTIPART_BLOCK_SIZE)
  /\ delivered = <<>>
  /\ last = Call("init", 0, Null, 0, 0, <<>>)

\* the name is encoded and what that gives is decoded
NameRound ==
  /\ ~pipe.done
  /\ \E encoded \in { encodeName(input.s) } :
       pipe' = [done |-> TRUE, encoded |-> encoded, decoded |-> decodeName(encoded)]
  /\ UNCHANGED <<reader, orig, delivered, last, input>>

NextName == NameRound

SpecName == InitName /\ [][NextName]_vars

\* C28 (name codec round trip): decodeName(encodeName(s)) = s for every
\* string s, those with a backslash, a double quote or a line feed included.
NameRoundTrip == pipe.done => pipe.decoded = input.s

\* the round trip of the names without a backslash and without a '%' that two
\* hex digits follow
NameRoundTripPlain ==
  (/\ pipe.done
   /\ \A i \in 1..Len(input.s) :
        /\ input.s[i] # 92
        /\ PencodedMatch(input.s, i) = 0)
    => pipe.decoded = input.s

\* the name of one backslash comes back as two
NameBackslashDoubled ==
  /\ pipe.done
  /\ input.s = <<92>>
  /\ pipe.decoded = <<92, 92>>

----------------------------------------------------------------------------
(* C29: a boundary longer than the block *)

\* the search harness with every block size, those shorter than the
\* boundary included
InitPrecondition ==
  /\ \E P \in Boundaries, variant \in {"A", "B"} :
       /\ input = [boundary |-> P, variant |-> variant]
       /\ orig \in { s \in SeqsUpTo(MaxSearchStream) : Occurs(s, P) }
       /\ \E chunks \in Chunkings(orig), blockSize \in 1..MaxBlock :
            reader = IF variant = "A" THEN NewReaderA(chunks, blockSize)
                     ELSE NewReaderB(chunks, blockSize)
  /\ delivered = <<>>
  /\ last = Call("init", 0, Null, 0, 0, <<>>)
  /\ pipe = [g |-> NewSearch, nulls |-> 0, after |-> <<>>]

SpecPrecondition == InitPrecondition /\ [][NextSearch]_vars

\* the first next() of the generator throws exactly if the boundary is
\* longer than the block, and then leaves the reader as it was
ThrowsAtFirstNext ==
  (pipe.g.pc = "start" /\ pipe'.g # pipe.g) =>
    /\ SearchNextResult.kind = "throw" <=> Len(input.boundary) > reader.blockSize
    /\ SearchNextResult.kind = "throw" =>
         /\ reader' = reader
         /\ delivered' = delivered
         /\ pipe'.g.pc = "done"

\* after the throw the reader still holds every byte of the stream; with a
\* boundary that fits the block, one of the block's length included, the
\* search is exact
SearchedOrUntouched ==
  IF Len(input.boundary) > reader.blockSize
  THEN /\ delivered = <<>>
       /\ pipe.nulls = 0
       /\ pipe.after \o DrainSearch = orig
  ELSE BoundarySearchExact

\* C29 (boundary length precondition): readUntilBoundary throws at its
\* first next() exactly if the boundary is longer than the reader's block
\* size, without having consumed a byte of the reader (the reader then
\* still delivers the whole stream); a boundary as long as the block is
\* searched as any shorter one.
BoundaryPrecondition == []SearchedOrUntouched /\ [][ThrowsAtFirstNext]_vars

\* the generator has thrown over a stream that is not empty, and the reader
\* has since delivered that stream whole
BoundaryPreconditionWitness ==
  /\ Len(input.boundary) > reader.blockSize
  /\ pipe.g.pc = "done"
  /\ input.variant = "B"
  /\ Len(orig) > Len(input.boundary)
  /\ pipe.after = orig

\* a boundary as long as the block has been found behind other bytes
BoundaryOfBlockLength ==
  /\ Len(input.boundary) = reader.blockSize
  /\ Len(input.boundary) > 1
  /\ pipe.g.pc = "done"
  /\ delivered # <<>>
  /\ pipe.after = AfterBoundary(orig, input.boundary)
  /\ pipe.after # <<>>

----------------------------------------------------------------------------
(* iterableToStream (conversions): a ReadableStream over an iterable, with  *)
(* the signal of its own AbortController.  The stream has highWaterMark 0:  *)
(* pull() runs when a read is pending, and between its call of              *)
(* iterator.next() and the settling of that promise the consumer and the    *)
(* parent signal may act.                                                   *)

IterableError == "ohno"
ParentReason == "parent"
\* what controller.enqueue() and controller.close() throw on a stream that
\* is not readable
InvalidStateError == "TypeError: Invalid state"

\* the stream once the constructor has returned: start() has taken the
\* iterator and, the parent signal not being aborted, has added the listener
NewBody ==
  [ state |-> "readable", err |-> "", pos |-> 0, pulling |-> FALSE, reading |-> FALSE,
    ended |-> FALSE, enqueued |-> 0,
    aborted |-> FALSE, reason |-> "", parentAborted |-> FALSE,
    threw |-> FALSE, raced |-> FALSE, how |-> "none" ]

\* abortController.abort(reason): the first reason is kept
bodyAbort(b, reason) ==
  IF b.aborted THEN b ELSE [b EXCEPT !.aborted = TRUE, !.reason = reason]

\* controller.error(error): nothing on a stream that is not readable
bodyError(b, error) ==
  IF b.state = "readable"
  THEN [b EXCEPT !.state = "errored", !.err = error, !.reading = FALSE]
  ELSE b

\* the catch block of pull
bodyCatch(b, error) == bodyAbort(bodyError(b, error), error)

\* pull(controller) up to its await: signal?.throwIfAborted(), and
\* iterator.next() is called
bodyPull(b) ==
  IF b.parentAborted THEN bodyCatch(b, ParentReason)
  ELSE [b EXCEPT !.pulling = TRUE]

\* pull(controller) from its await on, the iterable giving its next chunk,
\* returning or throwing
bodySettle(b, script) ==
  LET s == [b EXCEPT !.pulling = FALSE]
  IN IF b.pos < script.chunks
     THEN IF b.state = "readable"
          THEN [s EXCEPT !.pos = @ + 1, !.enqueued = @ + 1, !.reading = FALSE]
          ELSE bodyCatch([s EXCEPT !.pos = @ + 1, !.ended = TRUE], InvalidStateError)
     ELSE IF script.end = "throw"
     THEN bodyCatch([s EXCEPT !.ended = TRUE, !.threw = TRUE], IterableError)
     ELSE IF b.state = "readable"
     THEN [s EXCEPT !.ended = TRUE, !.state = "closed", !.reading = FALSE]
     ELSE bodyCatch([s EXCEPT !.ended = TRUE], InvalidStateError)

\* stream.cancel(reason) on a readable stream: the stream is closed, the
\* pending read ends, and cancel(reason) ends the iterator, after the
\* next() that is under way if there is one
bodyCancel(b) ==
  [b EXCEPT !.state = "closed", !.reading = FALSE,
            !.ended = ~b.pulling, !.raced = b.pulling]

\* the listener of the parent signal
bodyParentAbort(b) == bodyAbort([b EXCEPT !.parentAborted = TRUE], ParentReason)

----------------------------------------------------------------------------
(* C30: the signal of iterableToStream *)

BodyMaxChunks == 2

InitBody ==
  /\ \E chunks \in 0..BodyMaxChunks, end \in {"return", "throw"}, parent \in BOOLEAN :
       input = [chunks |-> chunks, end |-> end, parent |-> parent]
  /\ pipe = NewBody
  /\ orig = <<>>
  /\ reader = NewReaderB(<<>>, MULTIPART_BLOCK_SIZE)
  /\ delivered = <<>>
  /\ last = Call("init", 0, Null, 0, 0, <<>>)

BodyStep(op, b) ==
  /\ pipe' = b
  /\ last' = Call(op, 0, Null, 0, 0, <<>>)
  /\ UNCHANGED <<reader, orig, delivered, input>>

\* the consumer reads: pull() is called
BodyRead ==
  /\ pipe.state = "readable"
  /\ ~pipe.reading
  /\ BodyStep("read", bodyPull([pipe EXCEPT !.reading = TRUE]))

\* the promise of iterator.next() settles
BodySettle ==
  /\ pipe.pulling
  /\ BodyStep("settle", bodySettle(pipe, input))

\* the consumer cancels the stream, a read pending or not
BodyCancel ==
  /\ pipe.state = "readable"
  /\ BodyStep("cancel", [bodyCancel(pipe) EXCEPT !.how = "cancel"])

\* the consumer leaves its for-await loop over the stream by a break or by
\* a throw, in the body of the loop: no read is pending
BodyLeave ==
  /\ pipe.state = "readable"
  /\ ~pipe.reading
  /\ pipe.enqueued > 0
  /\ \E how \in {"break", "throw"} :
       BodyStep(how, [bodyCancel(pipe) EXCEPT !.how = how])

\* the parent signal is aborted
BodyParentAbort ==
  /\ input.parent
  /\ ~pipe.parentAborted
  /\ BodyStep("abort", bodyParentAbort(pipe))

NextBody == BodyRead \/ BodySettle \/ BodyCancel \/ BodyLeave \/ BodyParentAbort

SpecBody == InitBody /\ [][NextBody]_vars

\* what C30 states of one state of the stream
SignalFollows ==
  /\ pipe.aborted <=> (pipe.threw \/ pipe.parentAborted)
  /\ (pipe.threw /\ ~pipe.parentAborted) =>
       /\ pipe.state = "errored"
       /\ pipe.err = IterableError
       /\ pipe.reason = IterableError
  /\ (pipe.parentAborted /\ ~pipe.threw) => pipe.reason = ParentReason

\* C30 (iterableToStream abort signal): the signal of the stream is aborted
\* exactly if the iterable has thrown while it was pulled (the stream is
\* then errored with that error, which is the signal's reason) or the
\* parent signal has been aborted; a consumer that cancels the stream,
\* leaves its loop early or throws in it does not abort the signal.
AbortSignalIff == SignalFollows

\* the same but for the consumers that cancel while a read is pending
AbortSignalIffNoRace == ~pipe.raced => SignalFollows

\* the signal is aborted though the iterable has not thrown and there is no
\* parent signal: the consumer has cancelled during a pull
AbortedByCancel ==
  /\ pipe.aborted
  /\ ~pipe.threw
  /\ ~input.parent
  /\ pipe.how = "cancel"
  /\ pipe.reason = InvalidStateError


----------------------------------------------------------------------------
(* C31: rewind directly after a read or a pull *)

\* a step that rewinds the cursor-rewind reader by k bytes of the slice the
\* call before it returned
RewindStep == last'.op = "rewind" /\ last.op \in {"read", "pull"}

\* what the calls after the rewind ought to deliver: the last k bytes of the
\* slice again, then what the reader had left before the rewind
RewindRedelivered ==
  DrainB(reader') = Drop(last.slice, Len(last.slice) - last'.arg) \o UnreadB(reader)

\* C31 (counterexample): rewind(k) directly after a read() or pull() that
\* returned a slice of k or more bytes makes the following calls deliver the
\* last k bytes of that slice again, followed by the rest of the stream,
\* whichever internal source the slice came from.
RewindAfterSlice == [][RewindStep => RewindRedelivered]_vars

\* the same after a read(), and after a pull() that left the block locked or
\* kept a part of its chunk: these rewinds are never lost
RewindAfterRead == [][(RewindStep /\ last.op = "read") => RewindRedelivered]_vars

RewindAfterPartialPull ==
  [][(RewindStep /\ last.op = "pull" /\ (reader.blockLocked \/ ~IsNull(reader.input)))
       => RewindRedelivered]_vars


----------------------------------------------------------------------------
(* C32: what a read of a stale stream takes from the shared reader *)

\* a step in which the consumer reads from the stream it kept, the pipeline
\* having gone on without an error
StaleReadStep == last'.op = "stale read" /\ pipe.stale.has /\ pipe.run.pc # "failed"

\* C32 (counterexample): once untar or parseMultipart has advanced past an
\* entry, a later read on that entry's still-held payload stream consumes no
\* bytes from the shared reader.
StaleLeavesReader == [][StaleReadStep => UnreadB(reader') = UnreadB(reader)]_vars

\* the same for the entries of an archive and for unsized parts only
StaleLeavesReaderUntar ==
  [][(StaleReadStep /\ pipe.kind = "untar") => UnreadB(reader') = UnreadB(reader)]_vars

StaleLeavesReaderUnsized ==
  [][(StaleReadStep /\ pipe.kind = "parseMultipart" /\ ~pipe.stale.p.sized)
       => UnreadB(reader') = UnreadB(reader)]_vars


----------------------------------------------------------------------------
(* C33: the metadata of an entry that follows an extension header *)

\* the six fields the header block and a PAX record can both set
MetaOf(h) ==
  [ mode |-> h.mode, uid |-> h.uid, gid |-> h.gid, mtime |-> h.mtime,
    uname |-> h.uname, gname |-> h.gname ]

WithMeta(h, meta) ==
  [h EXCEPT !.mode = meta.mode, !.uid = meta.uid, !.gid = meta.gid,
            !.mtime = meta.mtime, !.uname = meta.uname, !.gname = meta.gname]

\* what the entries' own header blocks store
MetaOwn ==
  [ mode |-> 384, uid |-> 3, gid |-> 4, mtime |-> 5, uname |-> <<97>>, gname |-> <<98>> ]

\* what the extension header block stores: what tar() writes there (the
\* defaults of an empty header), or fields of the writer's own
MetaForms == {"tar", "set"}

MetaExt(form) ==
  IF form = "tar" THEN MetaOf(EmptyHeader)
  ELSE [ mode |-> 493, uid |-> 7, gid |-> 8, mtime |-> 6, uname |-> <<117>>,
         gname |-> <<103>> ]

\* the extension headers: PAX headers with a record for the path or for the
\* uid, a GNU long name and a GNU long link name
MetaExts ==
  [ext : {GAX, PAX}, key : {KeyPath, KeyUid}]
    \cup { [ext |-> LONG_NAME, key |-> KeyPath], [ext |-> LONG_LINK_NAME, key |-> KeyLinkpath] }

MetaExtCells(e, form, now) ==
  LET payload == IF e.ext \in {GAX, PAX} THEN encodePaxEntry(e.key, ScopeValue(e.key))
                 ELSE ScopeValue(e.key) \o <<0>>
  IN encodeHeader(WithMeta([EmptyHeader EXCEPT !.typeflag = e.ext, !.size = Len(payload)],
                           MetaExt(form)), now)
       \o Padded(Cells(payload))

MetaEntryCells(now) ==
  encodeHeader(WithMeta(HeaderOf(Member(NameA, FILE, 3, 0, 0, <<>>)), MetaOwn), now)
    \o Padded(Payload(3, 30))

\* an extension header, then TarMaxEntries entries
InitMeta ==
  /\ \E e \in MetaExts, form \in MetaForms, now \in Clocks, split \in StaleSplits :
       \E stream \in { MetaExtCells(e, form, now)
                         \o Flatten([k \in 1..TarMaxEntries |-> MetaEntryCells(now)])
                         \o ZeroCells(BLOCK_SIZE * 2) } :
         /\ orig = stream
         /\ reader = NewReaderB(TarChunkings(split, <<>>, stream), BLOCK_SIZE)
         /\ input = [ext |-> e.ext, key |-> e.key, form |-> form, now |-> now,
                     split |-> split]
  /\ pipe = [run |-> [NewUntar EXCEPT !.pc = "new"], full |-> TRUE,
             fullRun |-> NewUntar, wholeRun |-> NewUntar]
  /\ delivered = <<>>
  /\ last = Call("init", 0, Null, 0, 0, <<>>)

SpecMeta == InitMeta /\ [][NextUntar]_vars

\* the metadata entry k ought to show: its own header's, but for the uid a
\* PAX record in reach sets
MetaExpected(k) ==
  IF input.key = KeyUid /\ (input.ext = GAX \/ (input.ext = PAX /\ k = 1))
  THEN [MetaOwn EXCEPT !.uid = NumberOf(ScopeValue(KeyUid))]
  ELSE MetaOwn

\* C33 (counterexample): the mode, uid, gid, mtime, uname and gname of an
\* emitted entry are those stored in its own header block unless a PAX
\* record for that key overrides them; the fields of a preceding extension
\* header block never end up in the entry.
MetadataOfOwnHeader ==
  /\ pipe.run.pc # "failed"
  /\ pipe.run.pc = "done" => Len(pipe.run.entries) = TarMaxEntries
  /\ \A k \in 1..Len(pipe.run.entries) : MetaOf(pipe.run.entries[k]) = MetaExpected(k)

\* the same for the entries that do not directly follow the extension
\* header
MetadataOfLaterEntries ==
  /\ pipe.run.pc # "failed"
  /\ \A k \in 2..Len(pipe.run.entries) : MetaOf(pipe.run.entries[k]) = MetaExpected(k)

\* what the code does for the entry after the extension header: a field
\* that is non-zero (non-empty) in the extension header block, as written,
\* stays
MetadataOfExtensionBlock ==
  Len(pipe.run.entries) >= 1 =>
    LET ext == MetaOf(encodeDefaults(WithMeta(EmptyHeader, MetaExt(input.form)), input.now))
        got == MetaOf(pipe.run.entries[1])
        want == MetaExpected(1)
    IN /\ got.mode = ext.mode
       /\ got.mtime = ext.mtime
       /\ got.gid = IF ext.gid # 0 THEN ext.gid ELSE want.gid
       /\ got.uname = IF ext.uname # <<>> THEN ext.uname ELSE want.uname
       /\ got.gname = IF ext.gname # <<>> THEN ext.gname ELSE want.gname
       /\ got.uid = IF input.key = KeyUid /\ input.ext \in {GAX, PAX} THEN want.uid
                    ELSE IF ext.uid # 0 THEN ext.uid ELSE want.uid


----------------------------------------------------------------------------
(* C34: the entries of the skip table *)

\* the boundaries: one byte repeated, and bytes that are all different as
\* far as that goes
SkipKinds == {"same", "cycle"}

\* the boundaries looked at: every length up to where an entry no longer
\* fits a byte, and longer ones up to the block size of parseMultipart in
\* the source
SkipInputs ==
  [m : 1..257, kind : SkipKinds] \cup [m : {511, 512, 513, 4096}, kind : {"cycle"}]

SkipBoundary(m, kind) ==
  [i \in 1..m |-> IF kind = "same" THEN 45 ELSE (i - 1) % 256]

InitSkip ==
  /\ input \in SkipInputs
  /\ pipe = [done |-> FALSE, byte |-> 0, entry |-> 0]
  /\ orig = <<>>
  /\ reader = NewReaderB(<<>>, 1)
  /\ delivered = <<>>
  /\ last = Call("init", 0, Null, 0, 0, <<>>)

\* indexOf() looks up the entry of the byte at the end of the window
SkipLookup ==
  /\ ~pipe.done
  /\ \E byte \in 0..255 :
       pipe' = [done |-> TRUE, byte |-> byte,
                entry |-> SkipTable(SkipBoundary(input.m, input.kind), byte)]
  /\ last' = Call("indexOf", 0, Null, 0, 0, <<>>)
  /\ UNCHANGED <<reader, orig, delivered, input>>

NextSkip == SkipLookup

SpecSkip == InitSkip /\ [][NextSkip]_vars

\* C34 (counterexample): for every boundary length m from 1 to the block
\* size, every entry of the skip table, as stored, is between 1 and m, so a
\* failed window moves the scan forward by at least one byte.
SkipEntryInRange == pipe.done => (1 <= pipe.entry /\ pipe.entry <= input.m)

\* the same for the boundaries whose length fits a byte
SkipEntryInRangeShort ==
  (pipe.done /\ input.m <= 255) => (1 <= pipe.entry /\ pipe.entry <= input.m)

\* a boundary of 256 bytes: the entry of a byte it does not hold is stored
\* as 0
SkipEntryWraps ==
  (pipe.done /\ input.m = 256 /\ input.kind = "same" /\ pipe.byte # 45) => pipe.entry = 0


----------------------------------------------------------------------------
(* C35: the search with the skip table and the search that looks at every  *)
(* occurrence of the boundary's first byte, side by side.  reader is the   *)
(* cursor-rewind reader of the former, pipe.naive the generator and the    *)
(* pushback reader of the latter; both are asked for their next slice in   *)
(* the same step.                                                          *)

\* a boundary and a stream of the length where a table entry no longer fits
\* a byte: the boundary is one byte repeated, the stream holds none of it
WideLen == 2 ^ 8
WideBoundary == [i \in 1..WideLen |-> 1]
WideStream == [i \in 1..WideLen |-> 2]

InitRefine ==
  /\ \/ \E P \in Boundaries :
          /\ input = [boundary |-> P]
          /\ orig \in SeqsUpTo(MaxSearchStream)
          /\ \E chunks \in Chunkings(orig), blockSize \in Len(P)..MaxBlock :
               /\ reader = NewReaderB(chunks, blockSize)
               /\ pipe = [g |-> NewSearch,
                          naive |-> [g |-> NewSearch, r |-> NewReaderA(chunks, blockSize)],
                          same |-> TRUE, out |-> <<>>]
     \/ /\ input = [boundary |-> WideBoundary]
        /\ orig = WideStream
        /\ reader = NewReaderB(<<orig>>, WideLen)
        /\ pipe = [g |-> NewSearch,
                   naive |-> [g |-> NewSearch, r |-> NewReaderA(<<orig>>, WideLen)],
                   same |-> TRUE, out |-> <<>>]
  /\ delivered = <<>>
  /\ last = Call("init", 0, Null, 0, 0, <<>>)

\* both generators have returned
RefineDone == pipe.g.pc = "done" /\ pipe.naive.g.pc = "done"

\* one next() on each generator
RefineNext ==
  /\ ~RefineDone
  /\ pipe.g.pc # "stalled"
  /\ \E skip \in { readUntilBoundaryB(pipe.g, reader, input.boundary) },
        naive \in { readUntilBoundaryA(pipe.naive.g, pipe.naive.r, input.boundary) } :
       /\ reader' = skip.r
       /\ pipe' = [pipe EXCEPT
                     !.g = skip.g,
                     !.naive = [g |-> naive.g, r |-> naive.r],
                     !.same = @ /\ skip.kind = naive.kind /\ skip.value = naive.value,
                     !.out = @ \o (IF naive.kind = "yield" THEN OutBytes(naive.value)
                                   ELSE <<>>)]
       /\ delivered' = delivered \o (IF skip.kind = "yield" THEN OutBytes(skip.value)
                                     ELSE <<>>)
       /\ last' = Call("next", 0, skip.value, 0, Len(delivered), <<>>)
  /\ UNCHANGED <<orig, input>>

NextRefine == RefineNext

SpecRefine == InitRefine /\ [][NextRefine]_vars

\* the two searches have yielded the same slices and sentinels so far, and
\* once both have returned their readers have the same bytes left
RefineAgree ==
  /\ pipe.same
  /\ delivered = pipe.out
  /\ RefineDone => UnreadB(reader) = UnreadA(pipe.naive.r)

\* C35 (counterexample): for any stream, chunking and boundary,
\* readUntilBoundary with the skip table yields the same bytes and null
\* sentinel, and leaves the reader at the same position, as the variant that
\* looks at every occurrence of the boundary's first byte.
SkipSearchRefinesNaive == RefineAgree

\* the same for the boundaries whose table entries fit a byte
SkipSearchRefinesNaiveShort == Len(input.boundary) < WideLen => RefineAgree

\* the two have found a boundary that lies across two blocks after a
\* look-alike start of it
SkipSearchAcrossBlocks ==
  /\ RefineDone
  /\ input.boundary = <<1, 1, 2>>
  /\ reader.blockSize = 3
  /\ orig = <<2, 1, 1, 1, 2, 2>>
  /\ delivered = <<2, 1>>


----------------------------------------------------------------------------
(* C36: parseMultipart over two ways of splitting one body *)

\* the consumer reads the stream of the part last yielded to its end
RECURSIVE PartReadAll(_, _)
PartReadAll(p, r) ==
  IF p.pc = "yielded" /\ p.stream.state = "readable"
  THEN With(partRead(p, r), LAMBDA s : PartReadAll(s.p, s.r))
  ELSE [p |-> p, r |-> r]

\* the run in which the consumer reads every part to its end
RECURSIVE MultipartFullRun(_, _)
MultipartFullRun(p, r) ==
  IF p.pc \in {"done", "failed"} THEN p
  ELSE With(multipartNext(p, r), LAMBDA n :
         With(PartReadAll(n.p, n.r), LAMBDA a : MultipartFullRun(a.p, a.r)))

\* what a run has to show: how it ended, and the name, headers and payload
\* of its parts
PartShown(part) ==
  [ name |-> part.name, size |-> part.size, type |-> part.type,
    headers |-> part.headers, data |-> part.data, complete |-> part.complete ]

RunShown(p) ==
  [ pc |-> p.pc, err |-> p.err, parts |-> [k \in 1..Len(p.parts) |-> PartShown(p.parts[k])] ]

\* the ways the source splits the body for the run it is compared with
ChunkedOthers == { TarSplit("one", 0, 0), TarSplit("by", 7, 3) }

\* a body split in one way for the run that is stepped through, and the
\* run over the same body split in another way
InitChunked ==
  /\ \E entries \in Forms, split \in FormSplits, other \in ChunkedOthers :
       \E written \in { streamMultipart(entries) } :
         \E stream \in { Flatten(written) } :
           /\ orig = stream
           /\ reader = NewReaderB(TarChunkings(split, written, stream), MULTIPART_BLOCK_SIZE)
           /\ input = [entries |-> entries, split |-> split, other |-> other]
           /\ pipe = [run |-> [NewMultipart(multipartContentType) EXCEPT !.pc = "new"],
                      full |-> TRUE,
                      otherRun |->
                        RunShown(MultipartFullRun(
                          [NewMultipart(multipartContentType) EXCEPT !.pc = "start"],
                          NewReaderB(TarChunkings(other, written, stream),
                                     MULTIPART_BLOCK_SIZE)))]
  /\ delivered = <<>>
  /\ last = Call("init", 0, Null, 0, 0, <<>>)

SpecChunked == InitChunked /\ [][NextMultipart]_vars

\* the run in which every part was read to its end has ended
ChunkedEnded == pipe.full /\ pipe.run.pc \in {"done", "failed"}

ChunkedSame ==
  /\ pipe.run.pc # "failed"
  /\ pipe.otherRun.pc # "failed"
  /\ ChunkedEnded => RunShown(pipe.run) = pipe.otherRun

\* C36 (counterexample): for any well-formed multipart body, with sized and
\* unsized parts, and any two ways of splitting it into source chunks,
\* parseMultipart yields the same parts with the same names, headers and
\* payload bytes, and fails in neither case.
MultipartChunkingIndependent == ChunkedSame

\* the same for the bodies whose parts are all unsized
MultipartChunkingIndependentUnsized ==
  (\A k \in 1..Len(input.entries) : ~input.entries[k].value.blob) => ChunkedSame

\* a body of two unsized parts, one way in single bytes and one way whole,
\* read to its end
ChunkedUnsizedTwice ==
  /\ ChunkedEnded
  /\ Len(input.entries) = 2
  /\ \A k \in 1..2 : ~input.entries[k].value.blob
  /\ input.split = TarSplit("by", 1, 1)
  /\ input.other = TarSplit("one", 0, 0)
  /\ Len(pipe.run.parts) = 2


----------------------------------------------------------------------------
(* untar: next() of the generator while a read of the entry's stream is    *)
(* pending.  The consumer calls read() on the stream's reader and, without *)
(* awaiting it, next() on the generator.  read() calls pull(controller),   *)
(* which runs up to `await reader.pull(remaining)`; next() resumes the     *)
(* generator after its yield, which finds remaining as it was and the      *)
(* stream locked and calls cancel(); the rest of pull(controller) runs     *)
(* when reader.pull() has settled.                                         *)

\* reader.pull() takes its bytes before it returns: from the rewound block
\* or from the current chunk; otherwise it waits for the source
PullSettles(r) == r.blockRewind > 0 \/ ~IsNull(r.input)

\* [p, r] after both have settled.  Where reader.pull() waits for the
\* source, skip() has found nothing to skip in the reader and waits for the
\* source behind it: the chunk asked for first goes to pull(), the chunks
\* after it to the loop of skip().
untarNextPending(p, r) ==
  IF p.remaining = 0
  THEN With(streamRead(p, r), LAMBDA s : untarNext(s.p, s.r))
  ELSE
    LET k == Len(p.entries)
        rem1 == IF ~p.consumedTrailer THEN p.remaining + p.pad ELSE p.remaining
    IN With(pullB(r, p.remaining), LAMBDA pl :
         With(IF PullSettles(r) THEN skipB(pl.r, rem1) ELSE SkipLoopB(pl.r, rem1),
              LAMBDA sk :
           LET left == rem1 - Len(OutBytes(pl.out))
               p1 == [p EXCEPT
                        !.consumedTrailer = TRUE,
                        !.remaining = left,
                        !.stream.locked = TRUE,
                        !.stream.state = IF IsNull(pl.out) THEN "errored"
                                         ELSE IF left = 0 THEN "closed" ELSE @,
                        !.stream.err = IF IsNull(pl.out) THEN "Invalid Tar: Unexpected EOF"
                                       ELSE @,
                        !.entries[k].data = @ \o OutBytes(pl.out),
                        !.entries[k].how = IF left = 0 THEN "full" ELSE "part",
                        !.entries[k].complete = (left = 0)]
           IN IF sk.out > 0 THEN Fail(p1, sk.r, "Invalid Tar: Unexpected EOF")
              ELSE UntarLoop(UntarContinue([p1 EXCEPT !.remaining = 0], sk.r), sk.r)))

----------------------------------------------------------------------------
(* C37: a pending read and the advance to the next entry *)

PendingItems ==
  StaleItems \cup { Item("tar", Member(NameA, FILE, 3, 420, 5, <<>>), 0) }

\* whole archives; pipe.pended is the entry during whose pending read the
\* consumer has last asked for the next one (0: none so far)
InitPending ==
  /\ \E items \in UNION { [1..n -> PendingItems] : n \in 1..TarMaxEntries },
        now \in Clocks, split \in TarSplits :
       \E written \in { ArchiveChunks(items, now) } :
         \E stream \in { Flatten(written) } :
           /\ orig = stream
           /\ reader = NewReaderB(TarChunkings(split, written, stream), BLOCK_SIZE)
           /\ input = [items |-> items, now |-> now, cut |-> 0, split |-> split]
  /\ pipe = [run |-> [NewUntar EXCEPT !.pc = "new"], full |-> TRUE,
             fullRun |-> NewUntar, wholeRun |-> NewUntar, pended |-> 0]
  /\ delivered = <<>>
  /\ last = Call("init", 0, Null, 0, 0, <<>>)

\* the consumer reads from the stream of the entry last yielded and asks
\* for the next entry before the read has settled
PendingNext ==
  /\ pipe.run.pc = "yielded"
  /\ pipe.run.stream.state = "readable"
  /\ \E res \in { untarNextPending(pipe.run, reader) } :
       /\ reader' = res.r
       /\ pipe' = [pipe EXCEPT !.run = res.p, !.full = FALSE,
                               !.pended = Len(pipe.run.entries)]
  /\ last' = Call("read, next", 0, Null, 0, 0, <<>>)
  /\ UNCHANGED <<orig, delivered, input>>

NextPending == UntarCall \/ UntarNext \/ StreamRead \/ StreamRelease \/ PendingNext

SpecPending == InitPending /\ [][NextPending]_vars

\* the generator has gone on from entry k having consumed its payload and
\* padding, no more and no less
ConsumedExactly(k) ==
  LET e == pipe.run.entries[k]
  IN e.finish # 0 - 1 => e.finish = e.start + e.size + blockPad(e.size)

\* C37 (counterexample): if the consumer asks for the next entry while a
\* read of the current entry's payload is pending, the bytes consumed from
\* the reader for that entry still total its payload plus padding, the next
\* header is read from the right offset, and the run does not fail.
PendingReadVersusAdvance ==
  pipe.pended > 0 =>
    /\ pipe.run.pc # "failed"
    /\ \A k \in 1..Len(pipe.run.entries) : ConsumedExactly(k)

\* the same where the consumer has awaited every read before it asked for
\* the next entry
AwaitedReadVersusAdvance ==
  pipe.pended = 0 =>
    /\ pipe.run.pc # "failed"
    /\ \A k \in 1..Len(pipe.run.entries) : ConsumedExactly(k)

\* next() was asked for during a pending read of an entry with payload left
\* and the generator has gone on
PendingReadAdvanced ==
  /\ pipe.pended > 0
  /\ pipe.run.entries[pipe.pended].size > 0
  /\ pipe.run.entries[pipe.pended].finish # 0 - 1

----------------------------------------------------------------------------
(* C38: the header blocks of tar() before the checks of the decoder *)

\* entries of every kind of header block tar() writes: a plain name, a
\* name split into prefix and name, a name and a link name that need a PAX
\* header; numbers written in octal, in base 256 and as negative numbers;
\* the defaults of mode and mtime
EmitNames == { NameA, NameSplit, NameLong }

EmitKinds ==
  { [typeflag |-> FILE, size |-> 3, linkname |-> <<>>],
    [typeflag |-> DIRECTORY, size |-> 0, linkname |-> <<>>],
    [typeflag |-> SYMLINK, size |-> 0, linkname |-> NameLong],
    [typeflag |-> LINK, size |-> 0, linkname |-> NameA] }

EmitEntries ==
  { [ Member(name, kind.typeflag, kind.size, mode, mtime, kind.linkname)
        EXCEPT !.uid = id, !.gid = id, !.uname = owner, !.gname = owner,
               !.devminor = id, !.lastModified = 0 ] :
      name \in EmitNames, kind \in EmitKinds, mode \in {0, 420, 33261},
      mtime \in {0 - 3, 0, 5}, id \in {0, 1000, 2097151, 2097152},
      owner \in {<<>>, <<117>>} }

InitEmit ==
  /\ \E entry \in EmitEntries, now \in Clocks : input = [entry |-> entry, now |-> now]
  /\ pipe = [k |-> 0, blocks |-> <<>>, done |-> FALSE]
  /\ orig = <<>>
  /\ reader = NewReaderB(<<>>, BLOCK_SIZE)
  /\ delivered = <<>>
  /\ last = Call("init", 0, Null, 0, 0, <<>>)

\* tar() takes the entry and yields its chunks; the header blocks among
\* them are noted: the block of the PAX header, if there is one, and the
\* block of the entry
EmitYield ==
  /\ pipe.k = 0
  /\ \E chunks \in { tarEntry(input.entry, input.now) } :
       \E pax \in { FramePaxChunks(input.entry) } :
         /\ pipe' = [pipe EXCEPT !.k = 1,
                                 !.blocks = (IF pax > 0 THEN <<chunks[1]>> ELSE <<>>)
                                              \o <<chunks[pax + 1]>>]
         /\ orig' = Flatten(chunks)
  /\ last' = Call("tar", 0, Null, 0, 0, <<>>)
  /\ UNCHANGED <<reader, delivered, input>>

\* tar() yields the end of the archive
EmitEnd ==
  /\ pipe.k = 1
  /\ ~pipe.done
  /\ pipe' = [pipe EXCEPT !.done = TRUE]
  /\ orig' = orig \o ZeroCells(BLOCK_SIZE * 2)
  /\ last' = Call("end", 0, Null, 0, 0, <<>>)
  /\ UNCHANGED <<reader, delivered, input>>

NextEmit == EmitYield \/ EmitEnd

SpecEmit == InitEmit /\ [][NextEmit]_vars

\* the decoder takes the block for a header: the magic is the one it looks
\* for, and the number in the chksum field is 256 plus the sum of the
\* bytes outside that field
HeaderAccepted(block) ==
  /\ Len(block) = BLOCK_SIZE
  /\ checkMagic(block)
  /\ decodeOctal(Field(block, 7), 8) = CHECKSUM_INITIAL + SumFields(block, 1)
  /\ checkChecksum(block) # 0

\* C38 (encoder headers are valid for the decoder): every header block
\* tar() has emitted, the block of a PAX extension header included, has
\* the ustar magic that checkMagic accepts and a stored checksum of 256
\* plus the sum of the bytes outside the chksum field, which checkChecksum
\* accepts.
EncodedHeadersValid ==
  \A i \in 1..Len(pipe.blocks) : HeaderAccepted(pipe.blocks[i])

\* tar() has written a PAX header block and, after it, the block of an
\* entry with a number in base 256 and a negative number
EncodedHeadersValidWitness ==
  /\ pipe.done
  /\ Len(pipe.blocks) = 2
  /\ getTypeFlag(pipe.blocks[1]) = PAX
  /\ ByteAt(Field(pipe.blocks[2], 3), 0) = 128
  /\ ByteAt(Field(pipe.blocks[2], 6), 0) = 255
  /\ HeaderAccepted(pipe.blocks[1])
  /\ HeaderAccepted(pipe.blocks[2])

----------------------------------------------------------------------------
(* C39: the numbers of the numeric fields, up to 2^53 - 1 *)

\* A number beyond the integers of the model is kept in two limbs,
\* hi * 2^24 + lo with lo < 2^24: three bytes and eight octal digits to the
\* low limb.  Every number of JavaScript up to 2^53 - 1 is an integer held
\* exactly, and so is every intermediate value of encodeOctal and
\* decodeOctal on such a number.
LIMB == 2 ^ 24

Wide(hi, lo) == [hi |-> hi, lo |-> lo]
WideZero == Wide(0, 0)
WideNumber(v) == v.hi * LIMB + v.lo

WideGreater(a, b) == a.hi > b.hi \/ (a.hi = b.hi /\ a.lo > b.lo)

\* Math.floor(num / d), num & (d - 1) for d a power of two up to 2^8
WideDiv(v, d) == Wide(v.hi \div d, (v.hi % d) * (LIMB \div d) + v.lo \div d)
WideMod(v, d) == v.lo % d

WideAdd(a, b) ==
  LET low == a.lo + b.lo IN Wide(a.hi + b.hi + low \div LIMB, low % LIMB)

\* byte * 256 ** k
WideByte(byte, k) ==
  IF byte = 0 THEN WideZero
  ELSE IF k < 3 THEN Wide(0, byte * Pow256(k))
  ELSE Wide(byte * Pow256(k - 3), 0)

\* num * 8 + digit
WideOctalShift(v, digit) ==
  LET low == v.lo * 8 + digit IN Wide(v.hi * 8 + low \div LIMB, low % LIMB)

\* the max of encodeOctal: 0o7777777 and 0o77777777777
OctalMax(length) == IF length <= 8 THEN Wide(0, 2097151) ELSE Wide(511, LIMB - 1)

\* Math.floor(value).toString(8)
RECURSIVE DigitsOfWide(_)
DigitsOfWide(v) ==
  IF v.hi = 0 /\ v.lo < 8 THEN <<48 + v.lo>>
  ELSE DigitsOfWide(WideDiv(v, 8)) \o <<48 + WideMod(v, 8)>>

\* the bytes of num, least significant last, in n bytes
RECURSIVE Base256Wide(_, _)
Base256Wide(num, n) ==
  IF n = 0 THEN <<>> ELSE Base256Wide(WideDiv(num, 256), n - 1) \o <<WideMod(num, 256)>>

\* an encodeOctal that never changes to base 256
encodeOctalWide_OctalOnly(length, value) ==
  IF value # WideZero
  THEN LET octal == DigitsOfWide(value)
           pad == length - Len(octal) - 2
           out == IF pad >= 0 THEN Repeat(48, pad) \o octal \o <<32>> ELSE octal
       IN encodeString(length, out)
  ELSE <<>>

\* encodeOctal(target, from, to, value) for a value that is not negative
encodeOctalWide(length, value) ==
  IF WideGreater(value, OctalMax(length))
  THEN TrimNul(<<128>> \o Base256Wide(value, length - 1))
  ELSE IF value # WideZero
  THEN LET octal == DigitsOfWide(value)
           pad == length - Len(octal) - 2
           out == IF pad >= 0 THEN Repeat(48, pad) \o octal \o <<32>> ELSE octal
       IN encodeString(length, out)
  ELSE <<>>

\* parseInt(s, 8) of a string that starts with neither white space nor a
\* sign; Null is NaN
RECURSIVE ParseDigitsWide(_, _)
ParseDigitsWide(s, acc) ==
  IF s # <<>> /\ IsDigit(Head(s), 8)
  THEN ParseDigitsWide(Tail(s), WideOctalShift(acc, Head(s) - 48))
  ELSE acc

parseOctalWide(s) ==
  IF s # <<>> /\ IsDigit(Head(s), 8) THEN Some(ParseDigitsWide(s, WideZero)) ELSE Null

\* what stands for the result of decodeOctal on a field that starts with
\* 0xff: a negative number, which two limbs do not hold
WideNegative == Wide(0 - 1, 0)

\* decodeOctal(bytes, from, to) on the field f of width to - from
decodeOctalWide(f, width) ==
  LET end == width - 1
  IN IF ByteAt(f, 0) = 128
     THEN LET RECURSIVE Sum256(_)
              Sum256(idx) ==
                IF idx < 1 THEN WideZero
                ELSE WideAdd(WideByte(ByteAt(f, idx), end - idx), Sum256(idx - 1))
          IN Sum256(end)
     ELSE IF ByteAt(f, 0) = 255 THEN WideNegative
     ELSE LET skips == { i \in 0..width : i = width \/ ByteAt(f, i) \notin {32, 0} }
              idx == CHOOSE i \in skips : \A j \in skips : i <= j
              val == IF end # idx THEN parseOctalWide(decodeString(f, idx, width))
                     ELSE Some(WideZero)
          IN IF IsNull(val) THEN WideZero ELSE Val(val)

\* zero, the ends of the ranges of three, seven and eleven octal digits
\* and of one to seven bytes, the limits of the two fields, and 2^53 - 1
OctalValues ==
  { Wide(hi, lo) :
      hi \in {0, 1, 7, 8, 127, 128, 255, 256, 511, 512, 65535, 65536,
              16777215, 16777216, 2 ^ 29 - 1},
      lo \in {0, 1, 7, 8, 420, 511, 512, 65535, 65536, 262143, 262144,
              2097151, 2097152, LIMB - 1} }

\* the widths of the numeric fields of a header
OctalWidths == {8, 12}

InitOctal ==
  /\ \E value \in OctalValues, width \in OctalWidths :
       input = [value |-> value, width |-> width]
  /\ pipe = [pc |-> "new", field |-> <<>>, value |-> WideZero]
  /\ orig = <<>>
  /\ reader = NewReaderB(<<>>, BLOCK_SIZE)
  /\ delivered = <<>>
  /\ last = Call("init", 0, Null, 0, 0, <<>>)

\* the encoder writes the value into a field of the width
OctalEncode ==
  /\ pipe.pc = "new"
  /\ pipe' = [pipe EXCEPT !.pc = "encoded",
                          !.field = encodeOctalWide(input.width, input.value)]
  /\ last' = Call("encodeOctal", 0, Null, 0, 0, <<>>)
  /\ UNCHANGED <<reader, orig, delivered, input>>

\* the decoder reads the field
OctalDecode ==
  /\ pipe.pc = "encoded"
  /\ pipe' = [pipe EXCEPT !.pc = "decoded",
                          !.value = decodeOctalWide(pipe.field, input.width)]
  /\ last' = Call("decodeOctal", 0, Null, 0, 0, <<>>)
  /\ UNCHANGED <<reader, orig, delivered, input>>

NextOctal == OctalEncode \/ OctalDecode

SpecOctal == InitOctal /\ [][NextOctal]_vars

\* the field holds octal digits, with at most a space after them, up to
\* its first NUL; a value of 0 leaves the field NUL
OctalWritten(f) ==
  \A i \in 1..Len(f) : IsDigit(f[i], 8) \/ (i = Len(f) /\ i > 1 /\ f[i] = 32)

\* the field holds the 0x80 of base 256 and the bytes of the number
Base256Written(f, width) == ByteAt(f, 0) = 128 /\ Len(f) <= width

\* C39 (numeric field round trip): for every integer v with 0 <= v <=
\* 2^53 - 1 and both widths of the numeric fields, 8 and 12 bytes, decoding
\* the field the encoder has written gives v; the field is written in
\* octal if v is no more than 0o7777777 (8 bytes) or 0o77777777777 (12
\* bytes), and in base 256 with the leading byte 0x80 otherwise.
NumericRoundTrip ==
  /\ pipe.pc # "new" =>
       /\ Len(pipe.field) <= input.width
       /\ IF WideGreater(input.value, OctalMax(input.width))
          THEN Base256Written(pipe.field, input.width)
          ELSE OctalWritten(pipe.field)
  /\ pipe.pc = "decoded" => pipe.value = input.value

\* 2^53 - 1 has been written into a field of 12 bytes, in base 256, and
\* read back
NumericRoundTripWitness ==
  /\ pipe.pc = "decoded"
  /\ input.width = 12
  /\ input.value = Wide(2 ^ 29 - 1, LIMB - 1)
  /\ pipe.field = <<128, 0, 0, 0, 0, 31, 255, 255, 255, 255, 255, 255>>
  /\ pipe.value = input.value

\* a number of eleven octal digits has been written into a field of 12
\* bytes and read back
NumericOctalEleven ==
  /\ pipe.pc = "decoded"
  /\ input.width = 12
  /\ input.value = Wide(511, LIMB - 1)
  /\ pipe.field = Repeat(55, 11)

\* on the numbers the integers of the model hold, the two limbs give what
\* encodeOctal and decodeOctal give
WideAgreesWithNarrow ==
  input.value.hi < 128 =>
    /\ pipe.pc # "new" =>
         pipe.field = encodeOctal(input.width, WideNumber(input.value))
    /\ pipe.pc = "decoded" =>
         WideNumber(pipe.value) = decodeOctal(pipe.field, input.width)

====
